---- MODULE Spec2Model ----
(***************************************************************************)
(* Model of the retrieval engine of legal-chatbot: LegalChatbot            *)
(* (src/app.py) and HealthCareChatbot (src/healthcare_chatbot.py).         *)
(*                                                                         *)
(* Strings are sequences of letters, so that str.lower, str.replace,       *)
(* concatenation and the substring test `a in b` are computed and not      *)
(* assumed.  A Vietnamese letter is one element, written as its base       *)
(* letter followed by the digits of its marks in the VNI convention (o62   *)
(* is o with circumflex and grave, d9 is d with stroke).  A similarity or  *)
(* a confidence is an integer number of hundredths (0.05 is 5).            *)
(***************************************************************************)
EXTENDS Integers, Sequences, FiniteSets, TLC

\* ------------------------------------------------------------ bounds
MaxRows == 2          \* rows the violations table may hold
MaxId == 3            \* largest row id SQLite hands out in the model
RankRows == 6         \* rows of the table the ranking is checked on
MaxHealthRows == 2    \* rows each table of the health database may hold
HealthRankRows == 4   \* rows of the health tables the ranking is checked on
MaxTokens == 3        \* pieces of a query to extract_entities

\* ------------------------------------------------------------ values
\* SQL NULL as pandas hands it to Python (None) in a TEXT column.
NULL == <<"NULL">>
\* An attribute that was never assigned (self.tfidf_matrix before a build,
\* a TfidfVectorizer that was never fitted).
Unset == << <<"UNSET">> >>
\* No query is waiting to be served.
NoRequest == [similarities |-> <<>>, entities |-> <<>>, waiting |-> FALSE]
\* document_id of a violation that is attached to no document.
NoDoc == 0

s_xe_may == <<"x","e"," ","m","a1","y">>
s_o_to == <<"o6"," ","t","o6">>
s_tat_ca == <<"t","a61","t"," ","c","a3">>
s_toc_do == <<"t","o61","c"," ","d9","o65">>
s_den_do == <<"d9","e2","n"," ","d9","o3">>
s_Qua == <<"Q","u","a1">>
s_Vuot == <<"V","u7","o75","t">>
s_kw == <<"k","m">>
s_space == <<" ">>
s_sot == <<"s","o61","t">>
s_ho == <<"h","o">>
s_sot_ho == <<"s","o61","t"," ","h","o">>
s_Sot == <<"S","o61","t">>
s_Ho == <<"H","o">>
s_sym == <<"s","y","m">>
s_Rau == <<"R","a","u">>
s_veg == <<"v","e","g">>
s_vit == <<"v","i","t">>
s_Yoga == <<"Y","o","g","a">>
s_flex == <<"f","l","e","x">>
s_deo == <<"d","e","o">>
s_te == <<"t","e">>
s_empty == <<>>

\* ------------------------------------------------------------ strings
\* str.lower(): a string is a sequence of letters, a letter with its Vietnamese
\* marks is one element (o62 is one letter, d9 is one letter).
LowerChar(c) ==
    CASE c = "Q" -> "q"
      [] c = "V" -> "v"
      [] c = "N" -> "n"
      [] c = "S" -> "s"
      [] c = "H" -> "h"
      [] c = "R" -> "r"
      [] c = "Y" -> "y"
      [] c = "X" -> "x"
      [] c = "M" -> "m"
      [] c = "K" -> "k"
      [] c = "C" -> "c"
      [] c = "D9" -> "d9"
      [] OTHER -> c

Lower(s) == [i \in DOMAIN s |-> LowerChar(s[i])]

\* What an f-string writes for a value: str(None) is "None".
Fmt(v) == IF v = NULL THEN <<"N","o","n","e">> ELSE v

\* Python's `sub in s` on strings: sub occurs as a contiguous slice of s.
Contains(sub, s) ==
    \E i \in 0..(Len(s) - Len(sub)) : SubSeq(s, i + 1, i + Len(sub)) = sub

\* ------------------------------------------------------------ state
VARIABLES
    db,               \* legal_database.db: [violations: rows, legal_documents: ids]
    violations,       \* self.violations, the DataFrame load_data read
    legal_documents,  \* self.legal_documents
    corpus,           \* self.corpus
    vectorizer,       \* the corpus self.vectorizer was fitted on, or Unset
    tfidf_matrix,     \* the corpus self.tfidf_matrix was computed from, or Unset
    ret,              \* what the last call returned or raised
    request,          \* the query a ranking run has still to serve, or NoRequest
    hdb,              \* healthcare_database.db: the four tables
    health_advice,    \* self.health_advice
    nutrition_data,   \* self.nutrition_data
    exercise_data,    \* self.exercise_data
    emergency_conditions, \* self.emergency_conditions
    pc,               \* where a mutation and a search running as two threads stand
    seen,             \* what that search has read so far
    before,           \* the state when that mutation started
    cache,            \* what lru_cache keeps for cached_search, by query
    response          \* the HTTP response of the last request to a route

\* The state of a LegalChatbot and of a HealthCareChatbot; corpus, vectorizer
\* and tfidf_matrix are those of the chatbot a run is about.
legal == <<db, violations, legal_documents>>
health == <<hdb, health_advice, nutrition_data, exercise_data, emergency_conditions>>
threads == <<pc, seen, before>>
web == <<cache, response>>
vars == <<db, violations, legal_documents, corpus, vectorizer, tfidf_matrix, ret,
          request, hdb, health_advice, nutrition_data, exercise_data,
          emergency_conditions, pc, seen, before, cache, response>>

\* ------------------------------------------------------------ LegalChatbot
\* One corpus document per violation row.
ViolationText(v) ==
    Lower(Fmt(v.description) \o s_space \o Fmt(v.keywords) \o s_space
          \o Fmt(v.vehicle_type) \o s_space \o Fmt(v.violation_type))

CorpusOf(rows) == [i \in DOMAIN rows |-> ViolationText(rows[i])]

\* TfidfVectorizer.fit_transform: the matrix has one row per document, each a
\* function of the whole corpus, so the matrix is named by the corpus it was
\* computed from.
FitTransform(c) == c

Ids(s) == {s[i].id : i \in DOMAIN s}

\* INTEGER PRIMARY KEY without AUTOINCREMENT: one more than the largest rowid.
NextRowId(s) ==
    IF s = <<>> THEN 1
    ELSE 1 + (CHOOSE m \in Ids(s) : \A o \in Ids(s) : o <= m)

\* The violation_data dictionaries the model posts to add_violation; the
\* second is a JSON body whose keywords is null.
DataSpeed ==
    [violation_type |-> s_toc_do, description |-> s_Qua,
     vehicle_type |-> s_xe_may, keywords |-> s_kw, document_id |-> 1]

DataNoKeywords ==
    [violation_type |-> s_den_do, description |-> s_Vuot,
     vehicle_type |-> s_tat_ca, keywords |-> NULL, document_id |-> NoDoc]

DataRedLight ==
    [violation_type |-> s_den_do, description |-> s_Vuot,
     vehicle_type |-> s_o_to, keywords |-> s_den_do, document_id |-> 1]

\* A row whose violation_type names two kinds of violation.
DataSpeedAtLight ==
    [violation_type |-> s_toc_do \o s_space \o s_den_do, description |-> s_Qua,
     vehicle_type |-> s_o_to, keywords |-> s_kw, document_id |-> NoDoc]

ViolationData == {DataSpeed, DataNoKeywords}

NewRow(id, d) ==
    [id |-> id, violation_type |-> d.violation_type,
     description |-> d.description, vehicle_type |-> d.vehicle_type,
     keywords |-> d.keywords, document_id |-> d.document_id]

\* The tables legal_database.db may hold when the process starts.
StartTables ==
    { <<>>,
      <<NewRow(1, DataSpeed)>>,
      <<NewRow(1, DataSpeed), NewRow(2, DataRedLight)>> }

\* build_search_index: fits and assigns only when the corpus is not empty.
BuiltVectorizer(c, old) == IF c # <<>> THEN c ELSE old
BuiltMatrix(c, old) == IF c # <<>> THEN FitTransform(c) ELSE old

\* Runs of a LegalChatbot hold no HealthCareChatbot, and the other way round.
NoTables == [health_advice |-> <<>>, nutrition_data |-> <<>>,
             exercise_data |-> <<>>, emergency_conditions |-> <<>>]

\* A field of `seen` the search has not read yet.
Unread == << <<"UNREAD">> >>

NothingSeen ==
    [corpus |-> Unread, vectorizer |-> Unread, tfidf_matrix |-> Unread,
     tables |-> NoTables, raised |-> "", value |-> <<>>]

\* Calls run one after the other: no thread is under way.
NoThreads ==
    /\ pc = [writer |-> "idle", reader |-> "idle"]
    /\ seen = NothingSeen
    /\ before = NothingSeen

\* No route has answered yet.
NoResponse == [route |-> "", request |-> <<>>, status |-> 0, body |-> [none |-> TRUE]]

\* Nothing was cached and no request was made.
NoWeb ==
    /\ cache = {}
    /\ response = NoResponse

NoHealthCareChatbot ==
    /\ hdb = NoTables
    /\ health_advice = <<>>
    /\ nutrition_data = <<>>
    /\ exercise_data = <<>>
    /\ emergency_conditions = <<>>

NoLegalChatbot ==
    /\ db = [violations |-> <<>>, legal_documents |-> {}]
    /\ violations = <<>>
    /\ legal_documents = {}

\* __init__: load_data(), then build_search_index().
Init ==
    /\ \E t \in StartTables :
          db = [violations |-> t, legal_documents |-> {1}]
    /\ violations = db.violations
    /\ legal_documents = db.legal_documents
    /\ corpus = CorpusOf(db.violations)
    /\ vectorizer = BuiltVectorizer(corpus, Unset)
    /\ tfidf_matrix = BuiltMatrix(corpus, Unset)
    /\ ret = [op |-> "init", raised |-> "", value |-> 0]
    /\ request = NoRequest
    /\ NoHealthCareChatbot
    /\ NoThreads
    /\ NoWeb

\* load_data: both tables are read, then the corpus is rebuilt from the rows.
LoadData(newdb) ==
    /\ violations' = newdb.violations
    /\ legal_documents' = newdb.legal_documents
    /\ corpus' = CorpusOf(newdb.violations)

\* add_violation: INSERT, commit, load_data(); returns the new row id.
AddViolation(d) ==
    /\ Len(db.violations) < MaxRows
    /\ NextRowId(db.violations) <= MaxId
    /\ LET id == NextRowId(db.violations)
           newdb == [db EXCEPT !.violations = Append(@, NewRow(id, d))]
       IN /\ db' = newdb
          /\ LoadData(newdb)
          /\ ret' = [op |-> "add_violation", raised |-> "", value |-> id]
    /\ UNCHANGED <<cache, vectorizer, tfidf_matrix, request, health, threads>>

\* Faulty variant: the row id passes for a column to set.
WhitelistWithId ==
    {"id", "violation_type", "description", "vehicle_type", "fine_amount",
     "additional_penalty", "legal_reference", "keywords", "document_id"}

\* update_violation: the whitelisted keys of violation_data are SET on the row
\* with the given id; success is rowcount > 0; load_data() in either case.
Whitelist ==
    {"violation_type", "description", "vehicle_type", "fine_amount",
     "additional_penalty", "legal_reference", "keywords", "document_id"}

\* The columns of a row the model keeps.
Columns == {"violation_type", "description", "vehicle_type", "keywords", "document_id"}

\* Faulty variant: every key of the request is taken for a column to set.
UpdateFieldsAnyKey(d) == DOMAIN d

UpdateFields(d) == (DOMAIN d) \cap Whitelist

UpdatedRow(r, d) ==
    [c \in DOMAIN r |->
        IF c \in UpdateFields(d) \cap Columns THEN d[c] ELSE r[c]]

\* The violation_data dictionaries the model puts to update_violation.
UpdateData ==
    { [description |-> s_Vuot, vehicle_type |-> s_o_to],
      [id |-> 9] }

UpdateViolation(violation_id, d) ==
    /\ LET hit == UpdateFields(d) # {} /\ violation_id \in Ids(db.violations)
           newdb == IF UpdateFields(d) = {} THEN db
                    ELSE [db EXCEPT !.violations =
                            [i \in DOMAIN @ |->
                                IF @[i].id = violation_id
                                THEN UpdatedRow(@[i], d) ELSE @[i]]]
       IN /\ db' = newdb
          /\ LoadData(newdb)
          /\ ret' = [op |-> "update_violation", raised |-> "", value |-> hit,
                     violation_id |-> violation_id, violation_data |-> d]
    /\ UNCHANGED <<cache, vectorizer, tfidf_matrix, request, health, threads>>

\* delete_violation: DELETE by id; success is rowcount > 0; load_data().
DeleteViolation(violation_id) ==
    /\ LET newdb == [db EXCEPT !.violations =
                        SelectSeq(@, LAMBDA r : r.id # violation_id)]
       IN /\ db' = newdb
          /\ LoadData(newdb)
          /\ ret' = [op |-> "delete_violation", raised |-> "",
                     value |-> violation_id \in Ids(db.violations),
                     violation_id |-> violation_id]
    /\ UNCHANGED <<cache, vectorizer, tfidf_matrix, request, health, threads>>

\* ------------------------------------------------------------ ranking
TopK == 5             \* search_violations(query, top_k=5)
Threshold == 5        \* similarities[idx] > 0.05
FinalCount == 3       \* results[:3]
VehicleBonus == 20    \* += 0.2
AllVehiclesBonus == 10 \* += 0.1
TypeBonus == 30       \* += 0.3

Indices(sims) == DOMAIN sims

\* similarities.argsort()[-top_k:][::-1]: the last top_k places of an ascending
\* order of the row indices, the last place first.  numpy's default sort kind
\* is not stable, so rows of equal similarity may stand in any order: every
\* outcome is built from the largest similarity down, k places deep.
RECURSIVE TopFrom(_, _, _)
TopFrom(sims, left, k) ==
    IF left = {} \/ k = 0 THEN { <<>> }
    ELSE UNION { { <<i>> \o t : t \in TopFrom(sims, left \ {i}, k - 1) } :
                 i \in { j \in left : \A o \in left : sims[o] <= sims[j] } }

\* Faulty variant: the [::-1] is forgotten, the top_k stand in ascending order.
TopIndicesAscending(sims, k) ==
    { [i \in DOMAIN t |-> t[Len(t) + 1 - i]] : t \in TopFrom(sims, Indices(sims), k) }

TopIndices(sims, k) == TopFrom(sims, Indices(sims), k)

\* Faulty variant: the threshold test lets equality pass.
PassThresholdInclusive(sims, top) == SelectSeq(top, LAMBDA i : sims[i] >= Threshold)

\* The indices of the loop that pass `similarities[idx] > 0.05`, in loop order.
PassThreshold(sims, top) == SelectSeq(top, LAMBDA i : sims[i] > Threshold)

\* Faulty variant: a row of another vehicle type is marked down.
VehicleBonusOrPenalty(v, entities) ==
    IF entities.vehicle_type # NULL
       /\ Contains(entities.vehicle_type, v.vehicle_type)
    THEN VehicleBonus
    ELSE IF v.vehicle_type = s_tat_ca THEN AllVehiclesBonus ELSE 0 - AllVehiclesBonus

\* The vehicle bonus: += 0.2 on a match, elif "tat ca" += 0.1.
VehicleBonusOf(v, entities) ==
    IF entities.vehicle_type # NULL
       /\ Contains(entities.vehicle_type, v.vehicle_type)
    THEN VehicleBonus
    ELSE IF v.vehicle_type = s_tat_ca THEN AllVehiclesBonus ELSE 0

\* Faulty variant: the loop has no break, every matching type adds its bonus.
RECURSIVE TypeLoopNoBreak(_, _, _)
TypeLoopNoBreak(confidence, vtypes, v) ==
    IF vtypes = <<>> THEN confidence
    ELSE TypeLoopNoBreak(
            IF Contains(Head(vtypes), v.violation_type)
            THEN confidence + TypeBonus ELSE confidence,
            Tail(vtypes), v)

\* for vtype in entities["violation_types"]: if vtype in ...: += 0.3; break
RECURSIVE TypeLoop(_, _, _)
TypeLoop(confidence, vtypes, v) ==
    IF vtypes = <<>> THEN confidence
    ELSE IF Contains(Head(vtypes), v.violation_type)
         THEN confidence + TypeBonus
         ELSE TypeLoop(confidence, Tail(vtypes), v)

\* One pass of the loop body for row idx: the row as a dictionary plus its
\* confidence.  idx is kept beside the dictionary to name the index row the
\* similarity came from; it is no key of the dictionary the code returns.
Candidate(rows, sims, idx, entities) ==
    [row |-> rows[idx], idx |-> idx,
     confidence |-> TypeLoop(sims[idx] + VehicleBonusOf(rows[idx], entities),
                             entities.violation_types, rows[idx])]

\* What the loop body raises for row idx, "" when it raises nothing:
\* iloc[idx] past the end of the DataFrame, or `x in None` on a NULL column.
RaisedBy(rows, idx, entities) ==
    IF idx > Len(rows) THEN "IndexError"
    ELSE IF entities.vehicle_type # NULL /\ rows[idx].vehicle_type = NULL
         THEN "TypeError"
    ELSE IF entities.violation_types # <<>> /\ rows[idx].violation_type = NULL
         THEN "TypeError"
    ELSE ""

\* Faulty variant: x goes before the elements equal to it.
InsertDescBeforeEqual(sorted, x) ==
    LET k == Cardinality({ j \in DOMAIN sorted : sorted[j].confidence > x.confidence })
    IN SubSeq(sorted, 1, k) \o <<x>> \o SubSeq(sorted, k + 1, Len(sorted))

\* results.sort(key=confidence, reverse=True): a stable sort, so candidates of
\* equal confidence keep their order.  x goes behind every element that is not
\* smaller.
InsertDesc(sorted, x) ==
    LET k == Cardinality({ j \in DOMAIN sorted : sorted[j].confidence >= x.confidence })
    IN SubSeq(sorted, 1, k) \o <<x>> \o SubSeq(sorted, k + 1, Len(sorted))

RECURSIVE SortDesc(_)
SortDesc(seq) ==
    IF seq = <<>> THEN <<>>
    ELSE InsertDesc(SortDesc(SubSeq(seq, 1, Len(seq) - 1)), seq[Len(seq)])

\* seq[:k]
FirstK(seq, k) == IF Len(seq) <= k THEN seq ELSE SubSeq(seq, 1, k)

\* The candidates of the loop, in loop order (before the re-sort).
Candidates(rows, sims, top, entities) ==
    LET kept == PassThreshold(sims, top)
    IN [j \in DOMAIN kept |-> Candidate(rows, sims, kept[j], entities)]

\* search_violations from the transform on: the loop, the re-sort, the cut.
RankViolations(rows, sims, top, entities) ==
    LET kept == PassThreshold(sims, top)
        bad == { j \in DOMAIN kept : RaisedBy(rows, kept[j], entities) # "" }
    IN IF bad # {}
       THEN [raised |-> RaisedBy(rows,
                          kept[CHOOSE j \in bad : \A o \in bad : j <= o], entities),
             value |-> <<>>]
       ELSE [raised |-> "",
             value |-> FirstK(SortDesc(Candidates(rows, sims, top, entities)),
                              FinalCount)]

\* The loop's candidates as they stood when the call ended: all of them when
\* nothing was raised, none otherwise.
LoopCandidates(rows, sims, top, entities) ==
    IF RankViolations(rows, sims, top, entities).raised = ""
    THEN Candidates(rows, sims, top, entities) ELSE <<>>

\* The entities extract_entities hands to the ranking for the model's queries.
NoEntities == [vehicle_type |-> NULL, violation_types |-> <<>>]

\* The similarities a query may have with the rows of the index.
LifeSims == {0, 36}
LifeEntities == { [vehicle_type |-> s_xe_may, violation_types |-> <<s_toc_do>>] }

\* search_violations(query): [] on an empty corpus; transform raises
\* NotFittedError on a vectorizer that was never fitted; else the ranking.
SearchViolations(sims, entities) ==
    /\ \/ /\ corpus = <<>>
          /\ sims = <<>>
          /\ ret' = [op |-> "search_violations", raised |-> "", value |-> <<>>,
                     similarities |-> sims, entities |-> entities,
                     candidates |-> <<>>]
       \/ /\ corpus # <<>>
          /\ vectorizer = Unset
          /\ sims = <<>>
          /\ ret' = [op |-> "search_violations", raised |-> "NotFittedError",
                     value |-> <<>>,
                     similarities |-> sims, entities |-> entities,
                     candidates |-> <<>>]
       \/ /\ corpus # <<>>
          /\ vectorizer # Unset
          /\ DOMAIN sims = DOMAIN tfidf_matrix
          /\ \E r \in { [rank |-> RankViolations(violations, sims, top, entities),
                          candidates |->
                              LoopCandidates(violations, sims, top, entities)] :
                        top \in TopIndices(sims, TopK) } :
                ret' = [op |-> "search_violations", raised |-> r.rank.raised,
                        value |-> r.rank.value, similarities |-> sims,
                        entities |-> entities, candidates |-> r.candidates]
    /\ UNCHANGED <<web, legal, health, corpus, vectorizer, tfidf_matrix, threads>>

\* The similarity vectors over the rows of the current index.
SimVectors(S) ==
    IF tfidf_matrix = Unset \/ corpus = <<>> \/ vectorizer = Unset THEN { <<>> }
    ELSE [DOMAIN tfidf_matrix -> S]

Next ==
    \/ \E d \in ViolationData : AddViolation(d) /\ UNCHANGED response
    \/ \E id \in 1..MaxId, d \in UpdateData :
          UpdateViolation(id, d) /\ UNCHANGED response
    \/ \E id \in 1..MaxId : DeleteViolation(id) /\ UNCHANGED response
    \/ \E sims \in SimVectors(LifeSims), e \in LifeEntities :
          SearchViolations(sims, e) /\ UNCHANGED <<request, web>>

Spec == Init /\ [][Next]_vars

\* ------------------------------------------------------------ HealthCareChatbot
HealthTopK == 3       \* search_health_info(query, top_k=3)
HealthThreshold == 5  \* similarities[idx] > 0.05
HealthFinalCount == 3 \* results[:3]
SymptomBonus == 30    \* += 0.3

\* One corpus document per row of health_advice, nutrition_data, exercise_data.
AdviceText(r) ==
    Lower(Fmt(r.condition_name) \o s_space \o Fmt(r.symptoms) \o s_space
          \o Fmt(r.keywords) \o s_space \o Fmt(r.category))

NutritionText(r) ==
    Lower(Fmt(r.food_name) \o s_space \o Fmt(r.benefits) \o s_space
          \o Fmt(r.keywords) \o s_space \o Fmt(r.category))

ExerciseText(r) ==
    Lower(Fmt(r.exercise_name) \o s_space \o Fmt(r.benefits) \o s_space
          \o Fmt(r.keywords) \o s_space \o Fmt(r.category))

\* The corpus load_data builds: advice, then nutrition, then exercise; the
\* emergency conditions are read but add no document.
HealthCorpusOf(t) ==
    [i \in DOMAIN t.health_advice |-> AdviceText(t.health_advice[i])]
    \o [i \in DOMAIN t.nutrition_data |-> NutritionText(t.nutrition_data[i])]
    \o [i \in DOMAIN t.exercise_data |-> ExerciseText(t.exercise_data[i])]

\* The dictionaries the model posts to add_* and puts to update_*.
AdviceFever ==
    [category |-> s_sym, condition_name |-> s_Sot, symptoms |-> s_sot_ho,
     keywords |-> s_sot]

\* No "symptoms" key: advice_data.get("symptoms", "") stores "".
AdviceCough ==
    [category |-> s_sym, condition_name |-> s_Ho, keywords |-> s_ho]

AdviceData == {AdviceFever, AdviceCough}

NutritionData == { [food_name |-> s_Rau, category |-> s_veg, benefits |-> s_vit] }

ExerciseData == { [exercise_name |-> s_Yoga, category |-> s_flex, benefits |-> s_deo] }

EmergencyData == { [condition_name |-> s_Sot, keywords |-> s_te] }

\* The columns an INSERT or UPDATE of health_advice sets.
AdviceRow(id, d) ==
    [id |-> id, category |-> d.category, condition_name |-> d.condition_name,
     symptoms |-> IF "symptoms" \in DOMAIN d THEN d.symptoms ELSE s_empty,
     keywords |-> d.keywords]

\* add_nutrition_data and update_nutrition_data name no keywords column: a new
\* row holds NULL there, an updated row keeps what it held.
NutritionRow(id, d, keywords) ==
    [id |-> id, food_name |-> d.food_name, category |-> d.category,
     benefits |-> d.benefits, keywords |-> keywords]

ExerciseRow(id, d, keywords) ==
    [id |-> id, exercise_name |-> d.exercise_name, category |-> d.category,
     benefits |-> d.benefits, keywords |-> keywords]

EmergencyRow(id, d) ==
    [id |-> id, condition_name |-> d.condition_name, keywords |-> d.keywords]

\* load_data of the HealthCareChatbot: the four tables, then the corpus.
HealthLoadData(newdb) ==
    /\ health_advice' = newdb.health_advice
    /\ nutrition_data' = newdb.nutrition_data
    /\ exercise_data' = newdb.exercise_data
    /\ emergency_conditions' = newdb.emergency_conditions
    /\ corpus' = HealthCorpusOf(newdb)

\* build_search_index after load_data, on the corpus just built.
BuildSearchIndex(c) ==
    /\ vectorizer' = BuiltVectorizer(c, vectorizer)
    /\ tfidf_matrix' = BuiltMatrix(c, tfidf_matrix)

\* Every add_* and update_*: the statement, commit, load_data(),
\* build_search_index().
HealthMutation(op, newdb, value) ==
    /\ hdb' = newdb
    /\ HealthLoadData(newdb)
    /\ BuildSearchIndex(HealthCorpusOf(newdb))
    /\ ret' = [op |-> op, raised |-> "", value |-> value]
    /\ UNCHANGED <<web, legal, request, threads>>

\* AUTOINCREMENT, in a table no row is ever deleted from.
NextAutoId(rows) == Len(rows) + 1

AddHealthAdvice(d) ==
    /\ Len(hdb.health_advice) < MaxHealthRows
    /\ LET id == NextAutoId(hdb.health_advice)
       IN HealthMutation("add_health_advice",
              [hdb EXCEPT !.health_advice = Append(@, AdviceRow(id, d))], id)

AddNutritionData(d) ==
    /\ Len(hdb.nutrition_data) < MaxHealthRows
    /\ LET id == NextAutoId(hdb.nutrition_data)
       IN HealthMutation("add_nutrition_data",
              [hdb EXCEPT !.nutrition_data = Append(@, NutritionRow(id, d, NULL))], id)

AddExerciseData(d) ==
    /\ Len(hdb.exercise_data) < MaxHealthRows
    /\ LET id == NextAutoId(hdb.exercise_data)
       IN HealthMutation("add_exercise_data",
              [hdb EXCEPT !.exercise_data = Append(@, ExerciseRow(id, d, NULL))], id)

AddEmergencyCondition(d) ==
    /\ Len(hdb.emergency_conditions) < MaxHealthRows
    /\ LET id == NextAutoId(hdb.emergency_conditions)
       IN HealthMutation("add_emergency_condition",
              [hdb EXCEPT !.emergency_conditions = Append(@, EmergencyRow(id, d))], id)

\* update_*: UPDATE ... WHERE id = ?; returns True whether or not a row matched.
UpdateHealthAdvice(advice_id, d) ==
    HealthMutation("update_health_advice",
        [hdb EXCEPT !.health_advice =
            [i \in DOMAIN @ |-> IF @[i].id = advice_id
                                THEN AdviceRow(advice_id, d) ELSE @[i]]], TRUE)

UpdateNutritionData(nutrition_id, d) ==
    HealthMutation("update_nutrition_data",
        [hdb EXCEPT !.nutrition_data =
            [i \in DOMAIN @ |-> IF @[i].id = nutrition_id
                                THEN NutritionRow(nutrition_id, d, @[i].keywords)
                                ELSE @[i]]], TRUE)

UpdateExerciseData(exercise_id, d) ==
    HealthMutation("update_exercise_data",
        [hdb EXCEPT !.exercise_data =
            [i \in DOMAIN @ |-> IF @[i].id = exercise_id
                                THEN ExerciseRow(exercise_id, d, @[i].keywords)
                                ELSE @[i]]], TRUE)

\* The tables of a HealthCareChatbot, as one record.
Loaded ==
    [health_advice |-> health_advice, nutrition_data |-> nutrition_data,
     exercise_data |-> exercise_data, emergency_conditions |-> emergency_conditions]

\* The data set row idx of the index belongs to (idx counts from 1 here and
\* from 0 in the code).
DataTypeOf(t, idx) ==
    IF idx <= Len(t.health_advice) THEN "health_advice"
    ELSE IF idx <= Len(t.health_advice) + Len(t.nutrition_data) THEN "nutrition"
    ELSE "exercise"

\* Faulty variant: exercise_idx forgets the nutrition rows.
LocalIndexShort(t, idx) ==
    IF idx <= Len(t.health_advice) THEN idx ELSE idx - Len(t.health_advice)

\* The position inside that data set: idx, nutrition_idx, exercise_idx.
LocalIndex(t, idx) ==
    IF idx <= Len(t.health_advice) THEN idx
    ELSE IF idx <= Len(t.health_advice) + Len(t.nutrition_data)
         THEN idx - Len(t.health_advice)
    ELSE idx - Len(t.health_advice) - Len(t.nutrition_data)

\* The rows .iloc[] is applied to.
DataSetOf(t, idx) ==
    IF DataTypeOf(t, idx) = "health_advice" THEN t.health_advice
    ELSE IF DataTypeOf(t, idx) = "nutrition" THEN t.nutrition_data
    ELSE t.exercise_data

ResolveRecord(t, idx) == DataSetOf(t, idx)[LocalIndex(t, idx)]

HealthPassThreshold(sims, top) == SelectSeq(top, LAMBDA i : sims[i] > HealthThreshold)

\* for symptom in entities["symptoms"]: if "symptoms" in record and
\* record["symptoms"] and symptom in record["symptoms"]: += 0.3 (no break).
RECURSIVE SymptomLoop(_, _, _)
SymptomLoop(confidence, symptoms, record) ==
    IF symptoms = <<>> THEN confidence
    ELSE SymptomLoop(
            IF /\ "symptoms" \in DOMAIN record
               /\ record.symptoms # NULL /\ record.symptoms # s_empty
               /\ Contains(Head(symptoms), record.symptoms)
            THEN confidence + SymptomBonus ELSE confidence,
            Tail(symptoms), record)

HealthCandidate(t, sims, idx, entities) ==
    [row |-> ResolveRecord(t, idx), idx |-> idx,
     data_type |-> DataTypeOf(t, idx),
     confidence |-> SymptomLoop(sims[idx], entities.symptoms, ResolveRecord(t, idx))]

HealthCandidates(t, sims, top, entities) ==
    LET kept == HealthPassThreshold(sims, top)
    IN [j \in DOMAIN kept |-> HealthCandidate(t, sims, kept[j], entities)]

\* .iloc[] past the end of the data set raises IndexError.
HealthRaisedBy(t, idx) ==
    IF LocalIndex(t, idx) > Len(DataSetOf(t, idx)) THEN "IndexError" ELSE ""

RankHealthInfo(t, sims, top, entities) ==
    LET kept == HealthPassThreshold(sims, top)
    IN IF \E j \in DOMAIN kept : HealthRaisedBy(t, kept[j]) # ""
       THEN [raised |-> "IndexError", value |-> <<>>, candidates |-> <<>>]
       ELSE [raised |-> "",
             value |-> FirstK(SortDesc(HealthCandidates(t, sims, top, entities)),
                              HealthFinalCount),
             candidates |-> HealthCandidates(t, sims, top, entities)]

HealthEntities == { [symptoms |-> <<s_sot, s_ho>>] }

\* search_health_info(query), as generate_health_response and
\* cached_health_search call it: with the default top_k.
SearchHealthInfo(sims, entities) ==
    /\ \/ /\ corpus = <<>>
          /\ sims = <<>>
          /\ ret' = [op |-> "search_health_info", raised |-> "", value |-> <<>>,
                     similarities |-> sims, entities |-> entities,
                     candidates |-> <<>>]
       \/ /\ corpus # <<>>
          /\ vectorizer = Unset
          /\ sims = <<>>
          /\ ret' = [op |-> "search_health_info", raised |-> "NotFittedError",
                     value |-> <<>>, similarities |-> sims, entities |-> entities,
                     candidates |-> <<>>]
       \/ /\ corpus # <<>>
          /\ vectorizer # Unset
          /\ DOMAIN sims = DOMAIN tfidf_matrix
          /\ \E r \in { RankHealthInfo(Loaded, sims, top, entities) :
                          top \in TopIndices(sims, HealthTopK) } :
                ret' = [op |-> "search_health_info", raised |-> r.raised,
                        value |-> r.value, similarities |-> sims,
                        entities |-> entities, candidates |-> r.candidates]
    /\ UNCHANGED <<web, legal, health, corpus, vectorizer, tfidf_matrix, threads>>

\* The tables healthcare_database.db may hold when the process starts:
\* setup_database leaves health_advice with at least one row.
StartHealthTables ==
    { [health_advice |-> <<AdviceRow(1, AdviceFever)>>,
       nutrition_data |-> <<>>, exercise_data |-> <<>>,
       emergency_conditions |-> <<EmergencyRow(1, CHOOSE d \in EmergencyData : TRUE)>>],
      [health_advice |-> <<AdviceRow(1, AdviceFever)>>,
       nutrition_data |-> <<NutritionRow(1, CHOOSE d \in NutritionData : TRUE, s_vit)>>,
       exercise_data |-> <<ExerciseRow(1, CHOOSE d \in ExerciseData : TRUE, s_deo)>>,
       emergency_conditions |-> <<EmergencyRow(1, CHOOSE d \in EmergencyData : TRUE)>>] }

\* __init__ of the HealthCareChatbot: setup_database(), load_data(),
\* build_search_index().
HealthStarted(t) ==
    /\ hdb = t
    /\ health_advice = t.health_advice
    /\ nutrition_data = t.nutrition_data
    /\ exercise_data = t.exercise_data
    /\ emergency_conditions = t.emergency_conditions
    /\ corpus = HealthCorpusOf(t)
    /\ vectorizer = BuiltVectorizer(corpus, Unset)
    /\ tfidf_matrix = BuiltMatrix(corpus, Unset)
    /\ ret = [op |-> "init", raised |-> "", value |-> 0]
    /\ NoLegalChatbot

HealthInit ==
    /\ \E t \in StartHealthTables : HealthStarted(t)
    /\ request = NoRequest
    /\ NoThreads
    /\ NoWeb

\* One query of a health run: a row of the index it is similar to, or none.
OneHot(S) ==
    IF tfidf_matrix = Unset \/ corpus = <<>> \/ vectorizer = Unset THEN { <<>> }
    ELSE { [i \in DOMAIN tfidf_matrix |-> IF i \in H THEN 36 ELSE 0] :
           H \in { {h} \cap DOMAIN tfidf_matrix : h \in S } }

HealthNext ==
    \/ \E d \in AdviceData : AddHealthAdvice(d)
    \/ \E d \in NutritionData : AddNutritionData(d)
    \/ \E d \in ExerciseData : AddExerciseData(d)
    \/ \E d \in EmergencyData : AddEmergencyCondition(d)
    \/ \E id \in 1..MaxHealthRows, d \in AdviceData : UpdateHealthAdvice(id, d)
    \/ \E id \in 1..MaxHealthRows, d \in NutritionData : UpdateNutritionData(id, d)
    \/ \E id \in 1..MaxHealthRows, d \in ExerciseData : UpdateExerciseData(id, d)
    \/ \E sims \in OneHot(0..(3 * MaxHealthRows)), e \in HealthEntities :
          SearchHealthInfo(sims, e) /\ UNCHANGED <<request, web>>

HealthSpec == HealthInit /\ [][HealthNext]_vars

\* ------------------------------------------------------------ failed reload
\* load_data whose read of the table named `at` raises (pandas DatabaseError):
\* the attributes assigned before that read are new, the rest are as they were,
\* and the except clause re-raises.
LoadDataRaising(newdb, at) ==
    /\ violations' = IF at = "legal_documents" THEN newdb.violations ELSE violations
    /\ UNCHANGED <<web, legal_documents, corpus>>

\* add_violation whose load_data raises after the INSERT was committed.
AddViolationRaising(d, at) ==
    /\ Len(db.violations) < MaxRows
    /\ NextRowId(db.violations) <= MaxId
    /\ LET id == NextRowId(db.violations)
           newdb == [db EXCEPT !.violations = Append(@, NewRow(id, d))]
       IN /\ db' = newdb
          /\ LoadDataRaising(newdb, at)
          /\ ret' = [op |-> "add_violation", raised |-> "DatabaseError", value |-> 0]
    /\ UNCHANGED <<web, vectorizer, tfidf_matrix, request, health, threads>>

\* delete_violation whose load_data raises after the DELETE was committed.
DeleteViolationRaising(violation_id, at) ==
    /\ LET newdb == [db EXCEPT !.violations =
                        SelectSeq(@, LAMBDA r : r.id # violation_id)]
       IN /\ db' = newdb
          /\ LoadDataRaising(newdb, at)
          /\ ret' = [op |-> "delete_violation", raised |-> "DatabaseError",
                     value |-> FALSE]
    /\ UNCHANGED <<web, vectorizer, tfidf_matrix, request, health, threads>>

ReadsOfLoadData == {"violations", "legal_documents"}

FaultNext ==
    \/ Next
    \/ \E d \in ViolationData, at \in ReadsOfLoadData : AddViolationRaising(d, at)
    \/ \E id \in 1..MaxId, at \in ReadsOfLoadData : DeleteViolationRaising(id, at)

FaultSpec == Init /\ [][FaultNext]_vars

\* ------------------------------------------------------------ two threads
\* add_health_advice in one thread and search_health_info in another, each a
\* sequence of reads and assignments of the attributes of the one chatbot.
\* Nothing in either method takes a lock.
Snapshot ==
    [corpus |-> corpus, vectorizer |-> vectorizer, tfidf_matrix |-> tfidf_matrix,
     tables |-> Loaded, raised |-> "", value |-> <<>>]

\* The state add_health_advice leaves when it runs alone on database t.
SnapshotAfter(t) ==
    [corpus |-> HealthCorpusOf(t), vectorizer |-> HealthCorpusOf(t),
     tfidf_matrix |-> FitTransform(HealthCorpusOf(t)),
     tables |-> t, raised |-> "", value |-> <<>>]

WriterAt(l) == pc.writer = l
ReaderAt(l) == pc.reader = l
WriterTo(l) == pc' = [pc EXCEPT !.writer = l]
ReaderTo(l) == pc' = [pc EXCEPT !.reader = l]

\* INSERT and commit.
WInsert(d) ==
    /\ WriterAt("idle")
    /\ Len(hdb.health_advice) < MaxHealthRows
    /\ hdb' = [hdb EXCEPT !.health_advice =
                  Append(@, AdviceRow(NextAutoId(hdb.health_advice), d))]
    /\ before' = Snapshot
    /\ WriterTo("read_health_advice")
    /\ UNCHANGED <<web, legal, request, health_advice, nutrition_data, exercise_data,
                   emergency_conditions, corpus, vectorizer, tfidf_matrix, ret, seen>>

\* load_data: self.health_advice = pd.read_sql_query(...), and so on.
WReadHealthAdvice ==
    /\ WriterAt("read_health_advice")
    /\ health_advice' = hdb.health_advice
    /\ WriterTo("read_nutrition_data")
    /\ UNCHANGED <<web, legal, request, hdb, nutrition_data, exercise_data,
                   emergency_conditions, corpus, vectorizer, tfidf_matrix, ret,
                   seen, before>>

WReadNutritionData ==
    /\ WriterAt("read_nutrition_data")
    /\ nutrition_data' = hdb.nutrition_data
    /\ WriterTo("read_exercise_data")
    /\ UNCHANGED <<web, legal, request, hdb, health_advice, exercise_data,
                   emergency_conditions, corpus, vectorizer, tfidf_matrix, ret,
                   seen, before>>

WReadExerciseData ==
    /\ WriterAt("read_exercise_data")
    /\ exercise_data' = hdb.exercise_data
    /\ WriterTo("read_emergency_conditions")
    /\ UNCHANGED <<web, legal, request, hdb, health_advice, nutrition_data,
                   emergency_conditions, corpus, vectorizer, tfidf_matrix, ret,
                   seen, before>>

WReadEmergencyConditions ==
    /\ WriterAt("read_emergency_conditions")
    /\ emergency_conditions' = hdb.emergency_conditions
    /\ WriterTo("clear_corpus")
    /\ UNCHANGED <<web, legal, request, hdb, health_advice, nutrition_data,
                   exercise_data, corpus, vectorizer, tfidf_matrix, ret,
                   seen, before>>

\* self.corpus = []
WClearCorpus ==
    /\ WriterAt("clear_corpus")
    /\ corpus' = <<>>
    /\ WriterTo("append")
    /\ UNCHANGED <<web, legal, request, health, vectorizer, tfidf_matrix, ret,
                   seen, before>>

\* self.corpus.append(text.lower()), one row at a time.
WAppend ==
    /\ WriterAt("append")
    /\ Len(corpus) < Len(HealthCorpusOf(Loaded))
    /\ corpus' = Append(corpus, HealthCorpusOf(Loaded)[Len(corpus) + 1])
    /\ UNCHANGED <<web, legal, request, health, vectorizer, tfidf_matrix, ret, threads>>

\* build_search_index: fit_transform refits self.vectorizer in place ...
WFit ==
    /\ WriterAt("append")
    /\ Len(corpus) = Len(HealthCorpusOf(Loaded))
    /\ vectorizer' = BuiltVectorizer(corpus, vectorizer)
    /\ WriterTo("assign_matrix")
    /\ UNCHANGED <<web, legal, request, health, corpus, tfidf_matrix, ret, seen, before>>

\* ... and its result is then assigned to self.tfidf_matrix.
WAssignMatrix ==
    /\ WriterAt("assign_matrix")
    /\ tfidf_matrix' = BuiltMatrix(corpus, tfidf_matrix)
    /\ ret' = [op |-> "add_health_advice", raised |-> "",
               value |-> Len(hdb.health_advice)]
    /\ WriterTo("done")
    /\ UNCHANGED <<web, legal, request, health, corpus, vectorizer, seen, before>>

\* if not self.corpus: return []
RCheckCorpus ==
    /\ ReaderAt("idle")
    /\ seen' = [seen EXCEPT !.corpus = corpus]
    /\ ReaderTo(IF corpus = <<>> THEN "done" ELSE "transform")
    /\ UNCHANGED <<web, legal, request, health, corpus, vectorizer, tfidf_matrix, ret,
                   before>>

\* self.vectorizer.transform([processed_query])
RTransform ==
    /\ ReaderAt("transform")
    /\ seen' = [seen EXCEPT !.vectorizer = vectorizer]
    /\ ReaderTo("cosine_similarity")
    /\ UNCHANGED <<web, legal, request, health, corpus, vectorizer, tfidf_matrix, ret,
                   before>>

\* cosine_similarity(query_vector, self.tfidf_matrix)
RCosineSimilarity ==
    /\ ReaderAt("cosine_similarity")
    /\ seen' = [seen EXCEPT !.tfidf_matrix = tfidf_matrix]
    /\ ReaderTo("resolve")
    /\ UNCHANGED <<web, legal, request, health, corpus, vectorizer, tfidf_matrix, ret,
                   before>>

\* The loop over top_indices reads the three data sets; a query vector of one
\* vocabulary against a matrix of another has the wrong width (ValueError).
RResolve(sims, entities) ==
    /\ ReaderAt("resolve")
    /\ DOMAIN sims = DOMAIN seen.tfidf_matrix
    /\ \E top \in TopIndices(sims, HealthTopK) :
          LET r == IF seen.vectorizer # seen.tfidf_matrix
                   THEN [raised |-> "ValueError", value |-> <<>>]
                   ELSE RankHealthInfo(Loaded, sims, top, entities)
          IN seen' = [seen EXCEPT !.tables = Loaded, !.raised = r.raised,
                                  !.value = r.value]
    /\ ReaderTo("done")
    /\ UNCHANGED <<web, legal, request, health, corpus, vectorizer, tfidf_matrix, ret,
                   before>>

\* The query of the search thread: similar to one row of the matrix it read.
SeenOneHot ==
    { [i \in DOMAIN seen.tfidf_matrix |-> IF i = h THEN 36 ELSE 0] :
      h \in DOMAIN seen.tfidf_matrix }

ConcInit ==
    /\ \E t \in StartHealthTables : HealthStarted(t)
    /\ request = NoRequest
    /\ NoThreads
    /\ NoWeb

ConcNext ==
    \/ \E d \in AdviceData : WInsert(d)
    \/ WReadHealthAdvice
    \/ WReadNutritionData
    \/ WReadExerciseData
    \/ WReadEmergencyConditions
    \/ WClearCorpus
    \/ WAppend
    \/ WFit
    \/ WAssignMatrix
    \/ RCheckCorpus
    \/ RTransform
    \/ RCosineSimilarity
    \/ \E sims \in SeenOneHot, e \in HealthEntities : RResolve(sims, e)

ConcSpec == ConcInit /\ [][ConcNext]_vars

\* ------------------------------------------------------------ ranking runs
\* The rows of a table of n violations: the four kinds of row in turn.
RankData == <<DataSpeed, DataRedLight, DataNoKeywords, DataSpeedAtLight>>

RankTable(n) == [i \in 1..n |-> NewRow(i, RankData[((i - 1) % Len(RankData)) + 1])]

RankSims == {5, 6, 36}

RankEntities ==
    { NoEntities,
      [vehicle_type |-> s_xe_may, violation_types |-> <<s_toc_do>>],
      [vehicle_type |-> s_o_to, violation_types |-> <<s_toc_do, s_den_do>>] }

\* A LegalChatbot started on a table of up to RankRows violations, and one
\* query: its similarities with the rows of the index and its entities.
LegalRankInit ==
    /\ \E n \in 0..RankRows :
          db = [violations |-> RankTable(n), legal_documents |-> {1}]
    /\ violations = db.violations
    /\ legal_documents = db.legal_documents
    /\ corpus = CorpusOf(db.violations)
    /\ vectorizer = BuiltVectorizer(corpus, Unset)
    /\ tfidf_matrix = BuiltMatrix(corpus, Unset)
    /\ ret = [op |-> "init", raised |-> "", value |-> 0]
    /\ \E sims \in SimVectors(RankSims), e \in RankEntities :
          request = [similarities |-> sims, entities |-> e, waiting |-> TRUE]
    /\ NoHealthCareChatbot
    /\ NoThreads
    /\ NoWeb

\* A HealthCareChatbot started on up to HealthRankRows rows, and one query.
HealthRankTables ==
    { [health_advice |-> [i \in 1..na |->
                            AdviceRow(i, IF i = 1 THEN AdviceFever ELSE AdviceCough)],
       nutrition_data |-> [i \in 1..nn |->
                            NutritionRow(i, CHOOSE d \in NutritionData : TRUE, s_vit)],
       exercise_data |-> [i \in 1..ne |->
                            ExerciseRow(i, CHOOSE d \in ExerciseData : TRUE, s_deo)],
       emergency_conditions |-> <<EmergencyRow(1, CHOOSE d \in EmergencyData : TRUE)>>] :
      na \in 1..2, nn \in 0..1, ne \in 0..(HealthRankRows - 3) }

HealthRankEntities == { [symptoms |-> <<>>], [symptoms |-> <<s_sot, s_ho>>] }

HealthRankInit ==
    /\ \E t \in HealthRankTables : HealthStarted(t)
    /\ \E sims \in SimVectors(RankSims), e \in HealthRankEntities :
          request = [similarities |-> sims, entities |-> e, waiting |-> TRUE]
    /\ NoThreads
    /\ NoWeb

RankInit == LegalRankInit \/ HealthRankInit

\* The query is served once, by the chatbot the run started.
ServeLegal ==
    /\ request.waiting
    /\ db.violations # <<>> \/ hdb = NoTables
    /\ SearchViolations(request.similarities, request.entities)
    /\ request' = NoRequest

ServeHealth ==
    /\ request.waiting
    /\ hdb # NoTables
    /\ SearchHealthInfo(request.similarities, request.entities)
    /\ request' = NoRequest

RankNext == ServeLegal \/ ServeHealth

RankSpec == RankInit /\ [][RankNext]_vars

\* ------------------------------------------------------------ entities
\* str.replace(old, new): every occurrence of old that does not overlap an
\* earlier one, from the left.
RECURSIVE Replace(_, _, _)
Replace(s, old, new) ==
    LET At(i) == SubSeq(s, i, i + Len(old) - 1) = old
        places == {i \in 1..(Len(s) - Len(old) + 1) : At(i)}
    IN IF places = {} THEN s
       ELSE LET first == CHOOSE i \in places : \A j \in places : i <= j
            IN SubSeq(s, 1, first - 1) \o new
               \o Replace(SubSeq(s, first + Len(old), Len(s)), old, new)

\* for old, new in replacements.items(): text = text.replace(old, new)
RECURSIVE ReplaceEach(_, _)
ReplaceEach(text, table) ==
    IF table = <<>> THEN text
    ELSE ReplaceEach(Replace(text, Head(table)[1], Head(table)[2]), Tail(table))

\* The replacements of LegalChatbot.preprocess_text, in dictionary order.
replacements ==
    << <<<<"x","e"," ","g","a81","n"," ","m","a1","y">>,
         <<"x","e"," ","m","a1","y">>>>,
       <<<<"m","o","t","o">>,
         <<"x","e"," ","m","a1","y">>>>,
       <<<<"x","e"," ","m","o6"," ","t","o6">>,
         <<"x","e"," ","m","a1","y">>>>,
       <<<<"o6"," ","t","o6"," ","c","o","n">>,
         <<"o6"," ","t","o6">>>>,
       <<<<"x","e"," ","h","o7","i">>,
         <<"o6"," ","t","o6">>>>,
       <<<<"x","e"," ","c","o","n">>,
         <<"o6"," ","t","o6">>>>,
       <<<<"r","u7","o75","u"," ","b","i","a">>,
         <<"n","o62","n","g"," ","d9","o65"," ","c","o62","n">>>>,
       <<<<"s","a","y"," ","x","i3","n">>,
         <<"n","o62","n","g"," ","d9","o65"," ","c","o62","n">>>>,
       <<<<"u","o61","n","g"," ","r","u7","o75","u">>,
         <<"n","o62","n","g"," ","d9","o65"," ","c","o62","n">>>>,
       <<<<"v","u7","o75","t"," ","d9","e2","n"," ","d9","o3">>,
         <<"d9","e2","n"," ","d9","o3">>>>,
       <<<<"c","h","a5","y"," ","q","u","a"," ","d9","e2","n"," ","d9","o3">>,
         <<"d9","e2","n"," ","d9","o3">>>>,
       <<<<"k","h","o6","n","g"," ","d9","o65","i"," ","m","u4"," ","b","a3","o"," ","h","i","e63","m">>,
         <<"m","u4"," ","b","a3","o"," ","h","i","e63","m">>>>,
       <<<<"k","h","o6","n","g"," ","c","o1"," ","m","u4"," ","b","a3","o"," ","h","i","e63","m">>,
         <<"m","u4"," ","b","a3","o"," ","h","i","e63","m">>>>,
       <<<<"c","h","a5","y"," ","q","u","a1"," ","t","o61","c"," ","d9","o65">>,
         <<"t","o61","c"," ","d9","o65">>>>,
       <<<<"v","u7","o75","t"," ","t","o61","c"," ","d9","o65">>,
         <<"t","o61","c"," ","d9","o65">>>>,
       <<<<"b","a82","n","g"," ","l","a1","i">>,
         <<"g","i","a61","y"," ","p","h","e1","p"," ","l","a1","i"," ","x","e">>>>,
       <<<<"g","i","a61","y"," ","p","h","e1","p">>,
         <<"g","i","a61","y"," ","p","h","e1","p"," ","l","a1","i"," ","x","e">>>> >>

\* LegalChatbot.preprocess_text
PreprocessText(text) == ReplaceEach(Lower(text), replacements)

\* any(word in text for word in words)
AnyIn(words, text) == \E i \in DOMAIN words : Contains(words[i], text)

VehicleWords ==
    [xe_may |->
        << <<"x","e"," ","m","a1","y">>, <<"m","o","t","o">> >>,
     o_to |->
        << <<"o6"," ","t","o6">>, <<"x","e"," ","h","o7","i">>,
           <<"x","e"," ","c","o","n">> >>]

\* Faulty variant: two separate ifs, a later match overwrites an earlier one.
VehicleTypeLastWins(text) ==
    IF AnyIn(VehicleWords.o_to, text) THEN s_o_to
    ELSE IF AnyIn(VehicleWords.xe_may, text) THEN s_xe_may
    ELSE NULL

\* if any(... ["xe máy", "moto"]): "xe máy"  elif any(...): "ô tô"
VehicleTypeOf(text) ==
    IF AnyIn(VehicleWords.xe_may, text) THEN s_xe_may
    ELSE IF AnyIn(VehicleWords.o_to, text) THEN s_o_to
    ELSE NULL

\* The five groups of extract_entities, in the order of their ifs: the tag a
\* group appends and the words that make it match.
ViolationGroups ==
    << [tag |-> <<"t","o61","c"," ","d9","o65">>,
        words |->
          << <<"t","o61","c"," ","d9","o65">>,
             <<"c","h","a5","y"," ","n","h","a","n","h">>, <<"k","m","/","h">>,
             <<"q","u","a1"," ","t","o61","c"," ","d9","o65">> >>],
       [tag |-> <<"n","o62","n","g"," ","d9","o65"," ","c","o62","n">>,
        words |->
          << <<"c","o62","n">>, <<"r","u7","o75","u">>, <<"b","i","a">>,
             <<"s","a","y">> >>],
       [tag |-> <<"d9","e2","n"," ","d9","o3">>,
        words |->
          << <<"d9","e2","n"," ","d9","o3">>, <<"v","u7","o75","t"," ","d9","e2","n">>,
             <<"d9","e2","n"," ","t","i1","n"," ","h","i","e65","u">> >>],
       [tag |-> <<"m","u4"," ","b","a3","o"," ","h","i","e63","m">>,
        words |->
          << <<"m","u4"," ","b","a3","o"," ","h","i","e63","m">>,
             <<"k","h","o6","n","g"," ","d9","o65","i">>, <<"m","u4">> >>],
       [tag |-> <<"g","i","a61","y"," ","t","o72">>,
        words |->
          << <<"g","i","a61","y"," ","p","h","e1","p">>,
             <<"b","a82","n","g"," ","l","a1","i">>,
             <<"g","i","a61","y"," ","t","o72">> >>] >>

\* Faulty variant: the ifs of the groups are chained with elif, so that only
\* the first group that matches appends its tag.
RECURSIVE ViolationTypesFirstOnly(_, _)
ViolationTypesFirstOnly(text, groups) ==
    IF groups = <<>> THEN <<>>
    ELSE IF AnyIn(Head(groups).words, text) THEN <<Head(groups).tag>>
    ELSE ViolationTypesFirstOnly(text, Tail(groups))

\* One `if any(...): entities["violation_types"].append(tag)` after the other.
RECURSIVE ViolationTypesOf(_, _)
ViolationTypesOf(text, groups) ==
    IF groups = <<>> THEN <<>>
    ELSE (IF AnyIn(Head(groups).words, text) THEN <<Head(groups).tag>> ELSE <<>>)
         \o ViolationTypesOf(text, Tail(groups))

\* \d and \s of the regular expression, on the letters of the model.
IsDigit(c) == c \in {"0", "1", "2", "3", "4", "5", "6", "7", "8", "9"}
IsSpace(c) == c \in {" ", "\t", "\n"}

DigitValue(c) ==
    CASE c = "0" -> 0 [] c = "1" -> 1 [] c = "2" -> 2 [] c = "3" -> 3 [] c = "4" -> 4
      [] c = "5" -> 5 [] c = "6" -> 6 [] c = "7" -> 7 [] c = "8" -> 8 [] c = "9" -> 9

\* int() of a string of digits.
RECURSIVE IntOf(_)
IntOf(digits) ==
    IF digits = <<>> THEN 0
    ELSE 10 * IntOf(SubSeq(digits, 1, Len(digits) - 1)) + DigitValue(digits[Len(digits)])

s_km_h == <<"k","m","/","h">>

\* s[i - 1:].startswith(word)
StartsAt(s, i, word) ==
    /\ i + Len(word) - 1 <= Len(s)
    /\ SubSeq(s, i, i + Len(word) - 1) = word

\* The last place of the run of letters satisfying Test(_) that starts at
\* place i of s (i - 1 when s[i] does not satisfy it).
RunEnd(s, i, Test(_)) ==
    CHOOSE j \in (i - 1)..Len(s) :
        /\ \A k \in i..j : Test(s[k])
        /\ j < Len(s) => ~Test(s[j + 1])

\* The match of (\d+)\s*km/h that starts at place i: its group 1, or NULL.
\* \d+ and \s* are greedy and what follows them is neither a digit nor a
\* space, so both runs are taken whole.
MatchSpeedAt(s, i) ==
    LET d == RunEnd(s, i, IsDigit)
        w == RunEnd(s, d + 1, IsSpace)
    IN IF d >= i /\ StartsAt(s, w + 1, s_km_h)
       THEN SubSeq(s, i, d) ELSE NULL

\* entities["speed"] when no speed was extracted (None): no integer of the text.
NoSpeed == 0 - 1

\* Faulty variant: the last match is taken (as the last element of findall).
SearchSpeedLast(s) ==
    LET at == { i \in DOMAIN s : MatchSpeedAt(s, i) # NULL
                                 /\ (i > 1 => ~IsDigit(s[i - 1])) }
    IN IF at = {} THEN NoSpeed
       ELSE IntOf(MatchSpeedAt(s, CHOOSE i \in at : \A j \in at : j <= i))

\* re.search(r"(\d+)\s*km/h", text): the leftmost match; int(group(1)).
SearchSpeed(s) ==
    LET at == { i \in DOMAIN s : MatchSpeedAt(s, i) # NULL }
    IN IF at = {} THEN NoSpeed
       ELSE IntOf(MatchSpeedAt(s, CHOOSE i \in at : \A j \in at : i <= j))

\* The speed is looked for inside the if of the first group only.
SpeedOf(text) ==
    IF AnyIn(ViolationGroups[1].words, text) THEN SearchSpeed(text) ELSE NoSpeed

\* LegalChatbot.extract_entities
ExtractEntities(query) ==
    LET text == PreprocessText(query)
    IN [vehicle_type |-> VehicleTypeOf(text),
        violation_types |-> ViolationTypesOf(text, ViolationGroups),
        speed |-> SpeedOf(text),
        alcohol_level |-> NULL]

\* The pieces the model's queries to extract_entities are made of.
QueryTokens ==
    { <<"x","e"," ","m","a1","y"," ">>,
      <<"M","o","t","o"," ">>,
      <<"o6"," ","t","o6"," ","c","o","n"," ">>,
      <<"u","o61","n","g"," ","r","u7","o75","u"," ">>,
      <<"v","u7","o75","t"," ","d9","e2","n"," ","d9","o3"," ">>,
      <<"m","u4"," ">>,
      <<"b","a82","n","g"," ","l","a1","i"," ">>,
      <<"8","0","k","m","/","h">>,
      <<"5"," ","k","m","/","h"," ">>,
      <<"7">>,
      <<"k","m","/","h">> }

RECURSIVE Join(_)
Join(pieces) == IF pieces = <<>> THEN <<>> ELSE Head(pieces) \o Join(Tail(pieces))

\* The queries of at most n pieces.
QueriesOf(tokens, n) == UNION { { Join(q) : q \in [1..k -> tokens] } : k \in 0..n }

\* A LegalChatbot started on a table of one violation.
LegalStarted ==
    /\ db = [violations |-> RankTable(1), legal_documents |-> {1}]
    /\ violations = db.violations
    /\ legal_documents = db.legal_documents
    /\ corpus = CorpusOf(db.violations)
    /\ vectorizer = BuiltVectorizer(corpus, Unset)
    /\ tfidf_matrix = BuiltMatrix(corpus, Unset)
    /\ ret = [op |-> "init", raised |-> "", value |-> 0]
    /\ NoHealthCareChatbot
    /\ NoThreads
    /\ NoWeb

EntityInit ==
    /\ LegalStarted
    /\ \E q \in QueriesOf(QueryTokens, MaxTokens) :
          request = [query |-> q, similarities |-> <<>>, entities |-> <<>>,
                     waiting |-> TRUE]

\* extract_entities(query), called once on the query of the run.
ExtractEntitiesCall ==
    /\ request.waiting
    /\ ret' = [op |-> "extract_entities", raised |-> "", query |-> request.query,
               value |-> ExtractEntities(request.query)]
    /\ request' = NoRequest
    /\ UNCHANGED <<web, legal, health, corpus, vectorizer, tfidf_matrix, threads>>

EntityNext == ExtractEntitiesCall

EntitySpec == EntityInit /\ [][EntityNext]_vars

\* ------------------------------------------------------------ health entities
\* The replacements of HealthCareChatbot.preprocess_text, in dictionary order.
health_replacements ==
    << <<<<"d9","a","u"," ","d9","a62","u">>,
         <<"n","h","u71","c"," ","d9","a62","u">>>>,
       <<<<"n","h","u71","c"," ","d9","a62","u">>,
         <<"d9","a","u"," ","d9","a62","u">>>>,
       <<<<"c","a3","m"," ","c","u1","m">>,
         <<"c","a3","m"," ","l","a5","n","h">>>>,
       <<<<"c","a3","m"," ","l","a5","n","h">>,
         <<"c","a3","m"," ","c","u1","m">>>>,
       <<<<"h","o"," ","c","o1"," ","d9","o72","m">>,
         <<"h","o"," ","c","o1"," ","d9","o72","m"," ","b","a","l","g","a","m">>>>,
       <<<<"h","o"," ","k","h","a","n">>,
         <<"h","o"," ","k","h","o6">>>>,
       <<<<"s","o61","t"," ","c","a","o">>,
         <<"n","h","i","e65","t"," ","d9","o65"," ","c","a","o">>>>,
       <<<<"d9","a","u"," ","b","u5","n","g">>,
         <<"d9","a","u"," ","d","a5"," ","d","a2","y">>>>,
       <<<<"m","e65","t"," ","m","o3","i">>,
         <<"m","e65","t"," ","m","o3","i"," ","u","e63"," ","o","a3","i">>>>,
       <<<<"u","e63"," ","o","a3","i">>,
         <<"m","e65","t"," ","m","o3","i"," ","u","e63"," ","o","a3","i">>>>,
       <<<<"c","a8","n","g"," ","t","h","a83","n","g">>,
         <<"s","t","r","e","s","s">>>>,
       <<<<"s","t","r","e","s","s">>,
         <<"c","a8","n","g"," ","t","h","a83","n","g"," ","s","t","r","e","s","s">>>>,
       <<<<"l","o"," ","a6","u">>,
         <<"l","o"," ","l","a81","n","g">>>>,
       <<<<"l","o"," ","l","a81","n","g">>,
         <<"l","o"," ","a6","u"," ","l","o"," ","l","a81","n","g">>>>,
       <<<<"k","h","o1"," ","n","g","u3">>,
         <<"m","a61","t"," ","n","g","u3">>>>,
       <<<<"m","a61","t"," ","n","g","u3">>,
         <<"k","h","o1"," ","n","g","u3"," ","m","a61","t"," ","n","g","u3">>>>,
       <<<<"t","a65","p"," ","t","h","e63"," ","d","u5","c">>,
         <<"v","a65","n"," ","d9","o65","n","g">>>>,
       <<<<"t","h","e63"," ","t","h","a","o">>,
         <<"v","a65","n"," ","d9","o65","n","g">>>>,
       <<<<"a8","n"," ","u","o61","n","g">>,
         <<"d","i","n","h"," ","d","u7","o74","n","g">>>>,
       <<<<"c","h","e61"," ","d9","o65"," ","a8","n">>,
         <<"d","i","n","h"," ","d","u7","o74","n","g">>>> >>

\* HealthCareChatbot.preprocess_text
HealthPreprocessText(text) == ReplaceEach(Lower(text), health_replacements)

symptom_keywords ==
    << <<"d9","a","u"," ","d9","a62","u">>, <<"n","h","u71","c"," ","d9","a62","u">>,
       <<"s","o61","t">>, <<"h","o">>, <<"d9","a","u"," ","b","u5","n","g">>,
       <<"b","u","o62","n"," ","n","o6","n">>,
       <<"c","h","o1","n","g"," ","m","a85","t">>, <<"m","e65","t"," ","m","o3","i">>,
       <<"k","h","o1"," ","n","g","u3">>,
       <<"c","a8","n","g"," ","t","h","a83","n","g">>, <<"l","o"," ","a6","u">>,
       <<"u","e63"," ","o","a3","i">>, <<"m","a61","t"," ","n","g","u3">>,
       <<"s","t","r","e","s","s">>, <<"l","o"," ","l","a81","n","g">> >>

body_parts ==
    << <<"d9","a62","u">>, <<"c","o63">>, <<"v","a","i">>, <<"l","u7","n","g">>,
       <<"b","u5","n","g">>, <<"c","h","a6","n">>, <<"t","a","y">>, <<"m","a81","t">>,
       <<"t","a","i">>, <<"m","u4","i">>, <<"h","o5","n","g">>, <<"n","g","u75","c">>,
       <<"t","i","m">>, <<"p","h","o63","i">> >>

\* The words of the two health topics.
TopicWords ==
    [nutrition |->
        << <<"a8","n">>, <<"t","h","u71","c"," ","a8","n">>,
           <<"d","i","n","h"," ","d","u7","o74","n","g">>,
           <<"v","i","t","a","m","i","n">> >>,
     exercise |->
        << <<"t","a65","p">>, <<"t","h","e63"," ","d","u5","c">>,
           <<"v","a65","n"," ","d9","o65","n","g">>, <<"g","y","m">> >>]

emergency_keywords ==
    << <<"c","a61","p"," ","c","u71","u">>, <<"k","h","a63","n"," ","c","a61","p">>,
       <<"n","g","u","y"," ","h","i","e63","m">>, <<"d","u74"," ","d","o65","i">>,
       <<"n","g","h","i","e6","m"," ","t","r","o5","n","g">>,
       <<"b","a61","t"," ","t","i3","n","h">>,
       <<"c","h","o","a1","n","g"," ","v","a1","n","g">>,
       <<"k","h","o1"," ","t","h","o73">> >>

\* for word in words: if word in text: list.append(word)
RECURSIVE WordsIn(_, _)
WordsIn(words, text) ==
    IF words = <<>> THEN <<>>
    ELSE (IF Contains(Head(words), text) THEN <<Head(words)>> ELSE <<>>)
         \o WordsIn(Tail(words), text)

\* HealthCareChatbot.extract_health_entities
ExtractHealthEntities(query) ==
    LET text == HealthPreprocessText(query)
    IN [symptoms |-> WordsIn(symptom_keywords, text),
        body_parts |-> WordsIn(body_parts, text),
        health_topics |->
            (IF AnyIn(TopicWords.nutrition, text) THEN <<"nutrition">> ELSE <<>>)
            \o (IF AnyIn(TopicWords.exercise, text) THEN <<"exercise">> ELSE <<>>),
        urgency_level |->
            IF AnyIn(emergency_keywords, text) THEN "emergency" ELSE "normal"]

\* str.split(): the words between runs of whitespace.
RECURSIVE Split(_)
Split(s) ==
    IF s = <<>> THEN <<>>
    ELSE IF IsSpace(Head(s)) THEN Split(Tail(s))
    ELSE LET e == RunEnd(s, 1, LAMBDA c : ~IsSpace(c))
         IN <<SubSeq(s, 1, e)>> \o Split(SubSeq(s, e + 1, Len(s)))

\* check_emergency returned None.
NoCondition == [id |-> 0]

\* HealthCareChatbot.check_emergency: None.lower() raises AttributeError for a
\* query that is None; None without an emergency keyword; else
\* the rows in store order, `None.split()` raising AttributeError on a row
\* whose keywords are NULL, the first row with a keyword in the text returned.
CheckEmergency(query, conditions) ==
    LET text == HealthPreprocessText(query)
        stops == { i \in DOMAIN conditions :
                     \/ conditions[i].keywords = NULL
                     \/ AnyIn(Split(conditions[i].keywords), text) }
        first == CHOOSE i \in stops : \A j \in stops : i <= j
    IN IF query = NULL
       THEN [raised |-> "AttributeError", value |-> NoCondition]
       ELSE IF ~AnyIn(emergency_keywords, text) \/ stops = {}
       THEN [raised |-> "", value |-> NoCondition]
       ELSE IF conditions[first].keywords = NULL
            THEN [raised |-> "AttributeError", value |-> NoCondition]
            ELSE [raised |-> "", value |-> conditions[first]]

\* ------------------------------------------------------------ answers
MaxAnswerTokens == 2  \* pieces of a query to generate_response and the like

\* `not query.strip()`: nothing but whitespace.
IsBlankNoStrip(query) == query = <<>>

IsBlank(query) == \A i \in DOMAIN query : IsSpace(query[i])

\* The dictionaries generate_response returns, the answer by its opening words.
EmptyQueryResponse == [answer |-> "Vui lo2ng nha65p ca6u ho3i cu3a ba5n.", confidence |-> 0]

NotFoundResponse ==
    [answer |-> "Xin lo64i, to6i kho6ng ti2m tha61y tho6ng tin phu2 ho75p",
     confidence |-> 0]

ErrorResponse ==
    [answer |-> "Xin lo64i, d9a4 co1 lo64i xa3y ra khi xu73 ly1 ca6u ho3i cu3a ba5n.",
     confidence |-> 0]

FoundResponse(results, entities) ==
    [answer |-> "Tho6ng tin ve62 ca6u ho3i", confidence |-> results[1].confidence,
     violations_found |-> Len(results), entities |-> entities]

\* The dictionaries generate_health_response returns.
EmptyHealthQueryResponse ==
    [answer |-> "Vui lo2ng nha65p ca6u ho3i su71c kho3e cu3a ba5n.", confidence |-> 0]

HealthNotFoundResponse ==
    [answer |-> "Xin lo64i, to6i kho6ng ti2m tha61y tho6ng tin phu2 ho75p",
     confidence |-> 0]

HealthErrorResponse ==
    [answer |-> "Xin lo64i, d9a4 co1 lo64i xa3y ra khi xu73 ly1 ca6u ho3i su71c kho3e cu3a ba5n.",
     confidence |-> 0, urgency |-> "normal"]

HealthFoundResponse(results, entities) ==
    [answer |-> "Tu7 va61n su71c kho3e cho ca6u ho3i",
     confidence |-> results[1].confidence, results_found |-> Len(results),
     entities |-> entities, urgency |-> entities.urgency_level]

EmergencyResponse(condition) ==
    [answer |-> "CA3NH BA1O KHA63N CA61P", confidence |-> 100,
     urgency |-> "emergency", emergency_condition |-> condition.condition_name]

\* Faulty variant: the emergency branch is never taken.
EmergencyFoundNever(e) == FALSE

\* `if emergency:` on what check_emergency returned.
EmergencyFound(e) == e.raised = "" /\ e.value # NoCondition

\* Faulty variant: the query is fitted, its words join the vocabulary.
VocabularyAfterFitTransform(v, query) == IF v = Unset THEN v ELSE Append(v, query)

\* vectorizer.transform([processed_query]) projects the query onto the
\* vocabulary of the fit; the vocabulary stays as it was.
VocabularyAfterTransform(v, query) == v

\* .iloc[idx].to_dict() builds a new dictionary for every result: the stored
\* rows take none of the keys the search sets on it.
RowsAfterToDict(rows, results) == rows

\* What the calls of search_violations and search_health_info come to: the
\* collaborators reached before the return or the raise.
SearchCalls(name, raised) ==
    IF corpus = <<>> THEN <<name>>
    ELSE IF raised = "NotFittedError" THEN <<name, "transform">>
    ELSE <<name, "transform", "cosine_similarity", "extract_entities">>

\* search_violations(query) for a query of the given similarities.
ViolationsFor(query, sims) ==
    IF corpus = <<>> THEN { [raised |-> "", value |-> <<>>] }
    ELSE IF vectorizer = Unset
         THEN { [raised |-> "NotFittedError", value |-> <<>>] }
    ELSE { RankViolations(violations, sims, top, ExtractEntities(query)) :
           top \in TopIndices(sims, TopK) }

\* search_health_info(query) for a query of the given similarities.
HealthInfoFor(query, sims) ==
    IF corpus = <<>> THEN { [raised |-> "", value |-> <<>>] }
    ELSE IF vectorizer = Unset
         THEN { [raised |-> "NotFittedError", value |-> <<>>] }
    ELSE { [raised |-> r.raised, value |-> r.value] :
           r \in { RankHealthInfo(Loaded, sims, top, ExtractHealthEntities(query)) :
                   top \in TopIndices(sims, HealthTopK) } }

\* Faulty variant: the handler names the lookup errors only.
ExceptLookupError(fault) == fault \in {"IndexError", "KeyError"}

\* `except Exception as e`: the faults of the model are all subclasses of it.
ExceptException(fault) == TRUE

\* What leaves the try statement: nothing when the handler took the fault.
Escaping(fault) == IF fault = "" \/ ExceptException(fault) THEN "" ELSE fault

\* A call that raised returned nothing.
NoValue == [none |-> TRUE]

\* generate_response(query): `query.strip()` raises AttributeError on a query
\* that is None; else the response, the collaborators it invoked and the
\* results it drew the answer from; a fault gets the answer of the handler.
ResponsesTo(query, sims) ==
    IF query = NULL
    THEN { [fault |-> "AttributeError", value |-> ErrorResponse, calls |-> <<>>,
            results |-> <<>>] }
    ELSE IF IsBlank(query)
    THEN { [fault |-> "", value |-> EmptyQueryResponse, calls |-> <<>>,
            results |-> <<>>] }
    ELSE { IF s.raised # ""
           THEN [fault |-> s.raised, value |-> ErrorResponse,
                 calls |-> SearchCalls("search_violations", s.raised),
                 results |-> <<>>]
           ELSE [fault |-> "",
                 value |-> IF s.value = <<>> THEN NotFoundResponse
                           ELSE FoundResponse(s.value, ExtractEntities(query)),
                 calls |-> SearchCalls("search_violations", "")
                           \o <<"extract_entities">>,
                 results |-> s.value] :
           s \in ViolationsFor(query, sims) }

\* generate_health_response(query).
HealthResponsesTo(query, sims) ==
    LET e == CheckEmergency(query, emergency_conditions)
    IN IF query = NULL
       THEN { [fault |-> "AttributeError", value |-> HealthErrorResponse,
               calls |-> <<>>, results |-> <<>>] }
       ELSE IF IsBlank(query)
       THEN { [fault |-> "", value |-> EmptyHealthQueryResponse, calls |-> <<>>,
               results |-> <<>>] }
       ELSE IF e.raised # ""
       THEN { [fault |-> e.raised, value |-> HealthErrorResponse,
               calls |-> <<"check_emergency">>, results |-> <<>>] }
       ELSE IF EmergencyFound(e)
       THEN { [fault |-> "", value |-> EmergencyResponse(e.value),
               calls |-> <<"check_emergency">>, results |-> <<>>] }
       ELSE { IF s.raised # ""
              THEN [fault |-> s.raised, value |-> HealthErrorResponse,
                    calls |-> <<"check_emergency">>
                              \o SearchCalls("search_health_info", s.raised),
                    results |-> <<>>]
              ELSE [fault |-> "",
                    value |-> IF s.value = <<>> THEN HealthNotFoundResponse
                              ELSE HealthFoundResponse(s.value,
                                                       ExtractHealthEntities(query)),
                    calls |-> <<"check_emergency">>
                              \o SearchCalls("search_health_info", "")
                              \o <<"extract_health_entities">>,
                    results |-> s.value] :
              s \in HealthInfoFor(query, sims) }

GenerateResponse(query, sims) ==
    /\ \E o \in ResponsesTo(query, sims) :
          /\ ret' = [op |-> "generate_response", raised |-> Escaping(o.fault),
                     fault |-> o.fault, query |-> query,
                     value |-> IF Escaping(o.fault) = "" THEN o.value ELSE NoValue,
                     calls |-> o.calls, results |-> o.results]
          /\ violations' = RowsAfterToDict(violations, o.results)
    /\ vectorizer' = IF query = NULL \/ IsBlank(query) THEN vectorizer
                     ELSE VocabularyAfterTransform(vectorizer, PreprocessText(query))
    /\ UNCHANGED <<cache, db, legal_documents, health, corpus, tfidf_matrix,
                   threads>>

GenerateHealthResponse(query, sims) ==
    /\ \E o \in HealthResponsesTo(query, sims) :
          /\ ret' = [op |-> "generate_health_response",
                     raised |-> Escaping(o.fault), fault |-> o.fault,
                     query |-> query,
                     value |-> IF Escaping(o.fault) = "" THEN o.value ELSE NoValue,
                     calls |-> o.calls, results |-> o.results]
          /\ health_advice' = RowsAfterToDict(health_advice, o.results)
          /\ nutrition_data' = RowsAfterToDict(nutrition_data, o.results)
          /\ exercise_data' = RowsAfterToDict(exercise_data, o.results)
          /\ vectorizer' =
                IF "transform" \in { o.calls[i] : i \in DOMAIN o.calls }
                THEN VocabularyAfterTransform(vectorizer, HealthPreprocessText(query))
                ELSE vectorizer
    /\ UNCHANGED <<web, legal, hdb, emergency_conditions, corpus, tfidf_matrix, threads>>

\* check_emergency(query), called on its own.
CheckEmergencyCall(query) ==
    /\ LET e == CheckEmergency(query, emergency_conditions)
       IN ret' = [op |-> "check_emergency", raised |-> e.raised, query |-> query,
                  value |-> e.value]
    /\ UNCHANGED <<web, legal, health, corpus, vectorizer, tfidf_matrix, threads>>

\* The pieces the queries of the answer runs are made of.
LegalAnswerTokens ==
    { <<" ">>, <<"x","e"," ","m","a1","y"," ">>, <<"M","o","t","o"," ">>,
       <<"v","u7","o75","t"," ","d9","e2","n"," ","d9","o3"," ">>,
       <<"8","0","k","m","/","h"," ">> }

HealthAnswerTokens ==
    { <<" ">>, <<"s","o61","t"," ">>, <<"h","o"," ">>,
       <<"d9","a","u"," ","n","g","u75","c"," ">>, <<"d","u74"," ","d","o65","i"," ">>,
       <<"c","a61","p"," ","c","u71","u"," ">>, <<"c","a","o"," ">> }

\* The emergency conditions of the answer runs: keywords of several words,
\* keywords left empty, and keywords passed as None to add_emergency_condition.
ChestPain ==
    [condition_name |-> <<"D9","a","u"," ","n","g","u75","c">>,
     keywords |-> <<"d9","a","u"," ","n","g","u75","c"," ","t","i","m">>]

HighFever ==
    [condition_name |-> <<"S","o61","t"," ","c","a","o">>,
     keywords |-> <<"s","o61","t"," "," ","c","o"," ","g","i","a65","t">>]

NoKeywords == [condition_name |-> <<"N","g","a61","t">>, keywords |-> s_empty]

NullKeywords == [condition_name |-> <<"N","g","a61","t">>, keywords |-> NULL]

EmergencyTables ==
    { <<>>,
      <<EmergencyRow(1, ChestPain), EmergencyRow(2, HighFever)>>,
      <<EmergencyRow(1, HighFever), EmergencyRow(2, ChestPain)>>,
      <<EmergencyRow(1, NoKeywords), EmergencyRow(2, HighFever)>>,
      <<EmergencyRow(1, NullKeywords), EmergencyRow(2, ChestPain)>> }

AnswerSims == {0, 36}

\* A LegalChatbot on zero to two violations, or on the one violation added to
\* an empty table (the corpus holds it, the index was never built), and a
\* query: a text, or None.
LegalAnswerInit ==
    /\ \/ /\ \E n \in 0..2 :
                db = [violations |-> RankTable(n), legal_documents |-> {1}]
          /\ corpus = CorpusOf(db.violations)
          /\ vectorizer = BuiltVectorizer(corpus, Unset)
          /\ tfidf_matrix = BuiltMatrix(corpus, Unset)
       \/ /\ db = [violations |-> RankTable(1), legal_documents |-> {1}]
          /\ corpus = CorpusOf(db.violations)
          /\ vectorizer = Unset
          /\ tfidf_matrix = Unset
    /\ violations = db.violations
    /\ legal_documents = db.legal_documents
    /\ ret = [op |-> "init", raised |-> "", value |-> 0]
    /\ \E q \in QueriesOf(LegalAnswerTokens, MaxAnswerTokens) \cup {NULL},
          sims \in SimVectors(AnswerSims) :
          request = [query |-> q, similarities |-> sims, entities |-> <<>>,
                     waiting |-> TRUE]
    /\ NoHealthCareChatbot
    /\ NoThreads
    /\ NoWeb

HealthAnswerInit ==
    /\ \E t \in HealthRankTables, e \in EmergencyTables :
          /\ Len(t.health_advice) <= 1 + Len(t.nutrition_data)
          /\ t.exercise_data = <<>>
          /\ HealthStarted([t EXCEPT !.emergency_conditions = e])
    /\ \E q \in QueriesOf(HealthAnswerTokens, MaxAnswerTokens) \cup {NULL},
          sims \in SimVectors(AnswerSims) :
          request = [query |-> q, similarities |-> sims, entities |-> <<>>,
                     waiting |-> TRUE]
    /\ NoThreads
    /\ NoWeb

AnswerInit == LegalAnswerInit \/ HealthAnswerInit

\* The query of the run is served once, by one operation of the chatbot.
AnswerGenerateResponse ==
    /\ request.waiting
    /\ hdb = NoTables
    /\ GenerateResponse(request.query, request.similarities)
    /\ request' = NoRequest
    /\ UNCHANGED response

AnswerSearchViolations ==
    /\ request.waiting
    /\ request.query # NULL
    /\ hdb = NoTables
    /\ SearchViolations(request.similarities, ExtractEntities(request.query))
    /\ request' = NoRequest

AnswerGenerateHealthResponse ==
    /\ request.waiting
    /\ hdb # NoTables
    /\ GenerateHealthResponse(request.query, request.similarities)
    /\ request' = NoRequest

AnswerSearchHealthInfo ==
    /\ request.waiting
    /\ request.query # NULL
    /\ hdb # NoTables
    /\ SearchHealthInfo(request.similarities, ExtractHealthEntities(request.query))
    /\ request' = NoRequest

AnswerCheckEmergency ==
    /\ request.waiting
    /\ request.query # NULL
    /\ hdb # NoTables
    /\ CheckEmergencyCall(request.query)
    /\ request' = NoRequest

AnswerNext ==
    \/ AnswerGenerateResponse
    \/ AnswerSearchViolations
    \/ AnswerGenerateHealthResponse
    \/ AnswerSearchHealthInfo
    \/ AnswerCheckEmergency

AnswerSpec == AnswerInit /\ [][AnswerNext]_vars

\* ------------------------------------------------------------ routes
\* The answer webhook gives when the request names no query.
NoQueryText ==
    "To6i kho6ng hie63u ca6u ho3i cu3a ba5n. Vui lo2ng ho3i la5i ve62 lua65t giao tho6ng d9u7o72ng bo65."

\* The words of an answer (of its opening, for the answers that go on with the
\* query and the records found).
Text(answer) ==
    CASE answer = "Vui lo2ng nha65p ca6u ho3i cu3a ba5n." ->
        <<"Vui", "lo2ng", "nha65p", "ca6u", "ho3i", "cu3a", "ba5n", ".">>
      [] answer = "Vui lo2ng nha65p ca6u ho3i su71c kho3e cu3a ba5n." ->
        <<"Vui", "lo2ng", "nha65p", "ca6u", "ho3i", "su71c", "kho3e", "cu3a", "ba5n",
          ".">>
      [] answer = "Xin lo64i, d9a4 co1 lo64i xa3y ra khi xu73 ly1 ca6u ho3i cu3a ba5n." ->
        <<"Xin", "lo64i", ",", "d9a4", "co1", "lo64i", "xa3y", "ra", "khi", "xu73",
          "ly1", "ca6u", "ho3i", "cu3a", "ba5n", ".">>
      [] answer = "Xin lo64i, d9a4 co1 lo64i xa3y ra khi xu73 ly1 ca6u ho3i su71c kho3e cu3a ba5n." ->
        <<"Xin", "lo64i", ",", "d9a4", "co1", "lo64i", "xa3y", "ra", "khi", "xu73",
          "ly1", "ca6u", "ho3i", "su71c", "kho3e", "cu3a", "ba5n", ".">>
      [] answer = "Xin lo64i, to6i kho6ng ti2m tha61y tho6ng tin phu2 ho75p" ->
        <<"Xin", "lo64i", ",", "to6i", "kho6ng", "ti2m", "tha61y", "tho6ng", "tin",
          "phu2", "ho75p">>
      [] answer = NoQueryText ->
        <<"To6i", "kho6ng", "hie63u", "ca6u", "ho3i", "cu3a", "ba5n", ".", "Vui",
          "lo2ng", "ho3i", "la5i", "ve62", "lua65t", "giao", "tho6ng", "d9u7o72ng",
          "bo65", ".">>
      [] answer = "Tho6ng tin ve62 ca6u ho3i" ->
        <<"Tho6ng", "tin", "ve62", "ca6u", "ho3i">>
      [] answer = "Tu7 va61n su71c kho3e cho ca6u ho3i" ->
        <<"Tu7", "va61n", "su71c", "kho3e", "cho", "ca6u", "ho3i">>
      [] answer = "CA3NH BA1O KHA63N CA61P" ->
        <<"CA3NH", "BA1O", "KHA63N", "CA61P">>

\* str.strip()
RECURSIVE Strip(_)
Strip(s) ==
    IF s = <<>> THEN s
    ELSE IF IsSpace(Head(s)) THEN Strip(Tail(s))
    ELSE IF IsSpace(s[Len(s)]) THEN Strip(SubSeq(s, 1, Len(s) - 1))
    ELSE s

\* No JSON body, or an empty one: `not data`.
NoData == [empty |-> TRUE]

\* What Flask answers when a view raised: 500 and its own error page.
InternalServerError == [html |-> "Internal Server Error"]

\* chatbot.generate_response raising to the route: a fault the handler did not
\* take, or the double the tests put in its place.
GenerateResponseRaising(query) ==
    /\ ret' = [op |-> "generate_response", raised |-> "Exception",
               fault |-> "Exception", query |-> query, value |-> NoValue,
               calls |-> <<>>, results |-> <<>>]
    /\ UNCHANGED <<cache, legal, health, corpus, vectorizer, tfidf_matrix, threads>>

\* `if not query_text` of webhook, negated.
HasQueryText(query_text) == query_text # <<>>

\* POST /webhook: no query text gets a fixed fulfillmentText; else the answer of
\* generate_response is the fulfillmentText; the view has no try statement.
Webhook(query_text, sims) ==
    /\ \/ /\ ~HasQueryText(query_text)
          /\ response' = [route |-> "POST /webhook", request |-> query_text,
                          status |-> 200,
                          body |-> [fulfillmentText |-> NoQueryText]]
          /\ UNCHANGED <<cache, legal, health, corpus, vectorizer, tfidf_matrix,
                         ret, threads>>
       \/ /\ HasQueryText(query_text)
          /\ GenerateResponse(query_text, sims) \/ GenerateResponseRaising(query_text)
          /\ response' = [route |-> "POST /webhook", request |-> query_text,
                          status |-> IF ret'.raised # "" THEN 500 ELSE 200,
                          body |-> IF ret'.raised # "" THEN InternalServerError
                                   ELSE [fulfillmentText |-> ret'.value.answer]]
    /\ UNCHANGED request

\* POST /chat: 400 without a message; else generate_response on the stripped
\* message; whatever is raised inside the try statement gets 500.
Chat(data, sims) ==
    /\ \/ /\ data = NoData \/ "message" \notin DOMAIN data
          /\ response' = [route |-> "POST /chat", request |-> data, status |-> 400,
                          body |-> [error |-> "Vui lo2ng gu73i message trong request body"]]
          /\ UNCHANGED <<cache, legal, health, corpus, vectorizer, tfidf_matrix,
                         ret, threads>>
       \/ /\ data # NoData
          /\ "message" \in DOMAIN data
          /\ \/ GenerateResponse(Strip(data.message), sims)
             \/ GenerateResponseRaising(Strip(data.message))
          /\ response' = [route |-> "POST /chat", request |-> data,
                          status |-> IF ret'.raised # "" THEN 500 ELSE 200,
                          body |-> IF ret'.raised # ""
                                   THEN [error |-> "Internal server error"]
                                   ELSE ret'.value]
    /\ UNCHANGED request

\* The keys add_violation reads with violation_data[...], of the columns the
\* model keeps.
RequiredKeys == {"violation_type", "description", "vehicle_type", "keywords"}

\* add_violation on a dictionary that lacks one of them: KeyError, re-raised
\* by its handler before anything is written.
AddViolationKeyError(d) ==
    /\ ~(RequiredKeys \subseteq DOMAIN d)
    /\ ret' = [op |-> "add_violation", raised |-> "KeyError", value |-> 0]
    /\ UNCHANGED <<cache, legal, health, corpus, vectorizer, tfidf_matrix, threads>>

\* POST /violations
AddViolationRoute(data) ==
    /\ \/ /\ data = NoData
          /\ response' = [route |-> "POST /violations", request |-> data,
                          status |-> 400, body |-> [error |-> "No data provided"]]
          /\ UNCHANGED <<cache, legal, health, corpus, vectorizer, tfidf_matrix,
                         ret, threads>>
       \/ /\ data # NoData
          /\ \/ RequiredKeys \subseteq DOMAIN data /\ AddViolation(data)
             \/ AddViolationKeyError(data)
          /\ response' = [route |-> "POST /violations", request |-> data,
                          status |-> IF ret'.raised # "" THEN 500 ELSE 200,
                          body |-> IF ret'.raised # ""
                                   THEN [error |-> "Internal server error"]
                                   ELSE [id |-> ret'.value,
                                         message |-> "Violation added successfully"]]
    /\ UNCHANGED request

\* PUT /violations/<int:violation_id>
UpdateViolationRoute(violation_id, data) ==
    /\ \/ /\ data = NoData
          /\ response' = [route |-> "PUT /violations", request |-> data,
                          status |-> 400, body |-> [error |-> "No data provided"]]
          /\ UNCHANGED <<cache, legal, health, corpus, vectorizer, tfidf_matrix,
                         ret, request, threads>>
       \/ /\ data # NoData
          /\ UpdateViolation(violation_id, data)
          /\ response' = [route |-> "PUT /violations", request |-> data,
                          status |-> IF ret'.value THEN 200 ELSE 404,
                          body |-> IF ret'.value
                                   THEN [message |-> "Violation updated successfully"]
                                   ELSE [error |-> "Violation not found"]]

\* DELETE /violations/<int:violation_id>
DeleteViolationRoute(violation_id) ==
    /\ DeleteViolation(violation_id)
    /\ response' = [route |-> "DELETE /violations", request |-> violation_id,
                    status |-> IF ret'.value THEN 200 ELSE 404,
                    body |-> IF ret'.value
                             THEN [message |-> "Violation deleted successfully"]
                             ELSE [error |-> "Violation not found"]]

\* Faulty variant: rowcount > 0 of the first DELETE, the one on violations.
RowcountOfViolations(doc_id) ==
    \E i \in DOMAIN db.violations : db.violations[i].document_id = doc_id

\* cursor.rowcount > 0 after the second DELETE, the one on legal_documents.
RowcountOfDocuments(doc_id) == doc_id \in db.legal_documents

\* delete_legal_document: DELETE the violations of the document, DELETE the
\* document, commit, load_data(); returns rowcount > 0 of the last DELETE.

DeleteLegalDocument(doc_id) ==
    /\ LET newdb == [violations |->
                        SelectSeq(db.violations,
                                  LAMBDA r : r.document_id = NoDoc
                                             \/ r.document_id # doc_id),
                    legal_documents |-> db.legal_documents \ {doc_id}]
       IN /\ db' = newdb
          /\ LoadData(newdb)
          /\ ret' = [op |-> "delete_legal_document", raised |-> "",
                     value |-> RowcountOfDocuments(doc_id), doc_id |-> doc_id]
    /\ UNCHANGED <<cache, vectorizer, tfidf_matrix, request, health, threads>>

\* DELETE /legal-documents/<int:doc_id>
DeleteLegalDocumentRoute(doc_id) ==
    /\ DeleteLegalDocument(doc_id)
    /\ response' = [route |-> "DELETE /legal-documents", request |-> doc_id,
                    status |-> IF ret'.value THEN 200 ELSE 404,
                    body |-> IF ret'.value
                             THEN [message |-> "Legal document deleted successfully"]
                             ELSE [error |-> "Legal document not found"]]

\* A violation of a second legal document.
DataOtherDocument ==
    [violation_type |-> s_den_do, description |-> s_Vuot,
     vehicle_type |-> s_o_to, keywords |-> s_den_do, document_id |-> 2]

\* The tables the served chatbot starts on, over the documents 1 and 2.
WebTables ==
    { <<>>,
      <<NewRow(1, DataSpeed)>>,
      <<NewRow(1, DataSpeed), NewRow(2, DataOtherDocument)>> }

\* The query texts sent to /webhook and the bodies sent to /chat.
WebQueries == { <<>>, <<" ">>, <<"x","e"," ","m","a1","y">> }

ChatData ==
    { NoData, [text |-> <<"x","e">>], [message |-> <<" "," ">>],
      [message |-> <<" ","x","e"," ","m","a1","y"," ">>] }

\* The bodies sent to POST /violations: the last lacks the required keys.
PostedData == { NoData, DataSpeed, [description |-> s_Qua] }

\* The bodies sent to PUT /violations/<id>.
PutData == UpdateData \cup {NoData}

WebSims == {0, 36}

WebInit ==
    /\ \E t \in WebTables :
          db = [violations |-> t, legal_documents |-> {1, 2}]
    /\ violations = db.violations
    /\ legal_documents = db.legal_documents
    /\ corpus = CorpusOf(db.violations)
    /\ vectorizer = BuiltVectorizer(corpus, Unset)
    /\ tfidf_matrix = BuiltMatrix(corpus, Unset)
    /\ ret = [op |-> "init", raised |-> "", value |-> 0]
    /\ request = NoRequest
    /\ NoHealthCareChatbot
    /\ NoThreads
    /\ NoWeb

\* The routes that answer questions and take new violations.
WebNext ==
    \/ \E q \in WebQueries, sims \in SimVectors(WebSims) : Webhook(q, sims)
    \/ \E data \in ChatData, sims \in SimVectors(WebSims) : Chat(data, sims)
    \/ \E data \in PostedData : AddViolationRoute(data)

WebSpec == WebInit /\ [][WebNext]_vars

\* The routes that change or remove what is stored.
StoreNext ==
    \/ \E id \in 1..MaxId, data \in PutData : UpdateViolationRoute(id, data)
    \/ \E id \in 1..MaxId : DeleteViolationRoute(id)
    \/ \E doc_id \in 1..MaxId : DeleteLegalDocumentRoute(doc_id)

StoreSpec == WebInit /\ [][StoreNext]_vars

\* ------------------------------------------------------------ normalisation runs
MaxTextPieces == 2    \* pieces of a text given to preprocess_text

\* The pieces of the texts given to preprocess_text of the two chatbots.
LegalTextTokens ==
    { <<"X","e"," ","g","a81","n"," ","m","a1","y"," ">>,
      <<"c","h","a5","y"," ","n","h","a","n","h"," ">>,
      <<"O6"," ","t","o6"," ","c","o","n"," ">>,
      <<"v","u7","o75","t"," ","d9","e2","n"," ","d9","o3"," ">>,
      <<"U","o61","n","g"," ","r","u7","o75","u"," ">>,
      <<"b","a82","n","g"," ","l","a1","i"," ">>,
      <<"g","i","a61","y"," ","p","h","e1","p"," ">> }

HealthTextTokens ==
    { <<"m","e65","t"," ","m","o3","i"," ">>,
      <<"S","t","r","e","s","s"," ">>,
      <<"l","o"," ","l","a81","n","g"," ">>,
      <<"s","o61","t"," ","c","a","o"," ">>,
      <<"d9","a","u"," ","b","u5","n","g"," ">> }

\* A chatbot and a text; preprocess_text is called on the text and then on
\* what that call returned.
TextInit ==
    /\ \/ /\ LegalStarted
          /\ \E q \in QueriesOf(LegalTextTokens, MaxTextPieces) :
                request = [query |-> q, similarities |-> <<>>, entities |-> <<>>,
                           waiting |-> TRUE]
       \/ /\ \E t \in StartHealthTables :
                /\ t.nutrition_data = <<>>
                /\ HealthStarted(t)
          /\ \E q \in QueriesOf(HealthTextTokens, MaxTextPieces) :
                request = [query |-> q, similarities |-> <<>>, entities |-> <<>>,
                           waiting |-> TRUE]
          /\ NoThreads
          /\ NoWeb

\* How many times preprocess_text was called in the run.
CallsSoFar == IF ret.op = "init" THEN 0 ELSE ret.call

\* LegalChatbot.preprocess_text(text)
PreprocessTextCall ==
    /\ request.waiting
    /\ hdb = NoTables
    /\ ret' = [op |-> "preprocess_text", raised |-> "", call |-> CallsSoFar + 1,
               text |-> request.query, value |-> PreprocessText(request.query)]
    /\ request' = [request EXCEPT !.query = ret'.value, !.waiting = CallsSoFar = 0]
    /\ UNCHANGED <<web, legal, health, corpus, vectorizer, tfidf_matrix, threads>>

\* HealthCareChatbot.preprocess_text(text)
HealthPreprocessTextCall ==
    /\ request.waiting
    /\ hdb # NoTables
    /\ ret' = [op |-> "health.preprocess_text", raised |-> "",
               call |-> CallsSoFar + 1, text |-> request.query,
               value |-> HealthPreprocessText(request.query)]
    /\ request' = [request EXCEPT !.query = ret'.value, !.waiting = CallsSoFar = 0]
    /\ UNCHANGED <<web, legal, health, corpus, vectorizer, tfidf_matrix, threads>>

TextNext == PreprocessTextCall \/ HealthPreprocessTextCall

TextSpec == TextInit /\ [][TextNext]_vars

\* ------------------------------------------------------------ cached search
\* The queries put to cached_search.
CacheQueries == {s_xe_may, s_den_do}

\* cosine_similarity of a query and the rows of the index, for the queries of
\* the cache runs: 0.36 with a row whose text holds the query, else 0.
SimsOf(query) ==
    IF tfidf_matrix = Unset \/ corpus = <<>> \/ vectorizer = Unset THEN <<>>
    ELSE [i \in DOMAIN tfidf_matrix |->
            IF Contains(query, tfidf_matrix[i]) THEN 36 ELSE 0]

\* lru_cache: the entry kept for the query, if any.
Cached(query) == {e \in cache : e.query = query}

\* The call comes right after a call of cached_search with the same query.
Again(query) == ret.op = "cached_search" /\ ret.query = query

\* cached_search(query): lru_cache returns the value kept for the query, or
\* calls search_violations and keeps what it returned; a call that raised
\* leaves nothing in the cache.
CachedSearch(query) ==
    /\ \/ /\ Cached(query) # {}
          /\ ret' = [op |-> "cached_search", raised |-> "", query |-> query,
                     value |-> (CHOOSE e \in Cached(query) : TRUE).value,
                     invoked |-> FALSE, again |-> Again(query)]
          /\ cache' = cache
       \/ /\ Cached(query) = {}
          /\ \E s \in ViolationsFor(query, SimsOf(query)) :
                /\ ret' = [op |-> "cached_search", raised |-> s.raised,
                           query |-> query, value |-> s.value, invoked |-> TRUE,
                           again |-> Again(query)]
                /\ cache' = IF s.raised = ""
                            THEN cache \cup {[query |-> query, value |-> s.value]}
                            ELSE cache
    /\ violations' = RowsAfterToDict(violations, ret'.value)
    /\ vectorizer' = VocabularyAfterTransform(vectorizer, PreprocessText(query))
    /\ UNCHANGED <<response, db, legal_documents, health, corpus, tfidf_matrix,
                   request, threads>>

CacheNext ==
    \/ \E query \in CacheQueries : CachedSearch(query)
    \/ AddViolation(DataSpeed) /\ UNCHANGED response
    \/ \E id \in 1..MaxId :
          UpdateViolation(id, [vehicle_type |-> s_o_to]) /\ UNCHANGED response
    \/ \E id \in 1..MaxId : DeleteViolation(id) /\ UNCHANGED response

CacheSpec == Init /\ [][CacheNext]_vars

\* ------------------------------------------------------------ claims
\* A row with a NULL in one of the four columns the corpus text is made of.
HasNullText(v) ==
    \/ v.description = NULL
    \/ v.keywords = NULL
    \/ v.vehicle_type = NULL
    \/ v.violation_type = NULL

\* C1: after startup and after every record mutation the index is the one
\* built from the current records: the corpus has one document per loaded
\* row, made of that row's current text, and the matrix is the one computed
\* from that corpus.
C1_IndexIsCurrent ==
    /\ corpus = CorpusOf(violations)
    /\ corpus # <<>> => tfidf_matrix = FitTransform(corpus)

\* C4: a row with a NULL required text column is rejected when the corpus is
\* built: no document of the corpus comes from such a row.
C4_NullRowRejected ==
    \A i \in DOMAIN corpus :
        i \in DOMAIN violations => ~HasNullText(violations[i])

\* C5: whenever no index has been built, search_violations returns an empty
\* list and raises nothing.
C5_NoIndexEmptyList ==
    (ret.op = "search_violations" /\ tfidf_matrix = Unset)
        => (ret.raised = "" /\ ret.value = <<>>)

\* C2: a search that runs while a mutation reloads the data and rebuilds the
\* index reads either the complete state before the mutation or the complete
\* state after it: the tables, the corpus, the vocabulary and the matrix it
\* read all belong to one of the two.
C2_OldOrNewSnapshot ==
    ReaderAt("done") =>
        \E s \in { IF WriterAt("idle") THEN Snapshot ELSE before, SnapshotAfter(hdb) } :
            /\ seen.corpus = s.corpus
            /\ seen.vectorizer \in {Unread, s.vectorizer}
            /\ seen.tfidf_matrix \in {Unread, s.tfidf_matrix}
            /\ seen.tables \in {NoTables, s.tables}

\* C3: when load_data raises in a mutation, the records, the corpus and the
\* index are those in force before the mutation.
C3_FailedReloadKeepsState ==
    [][ret'.raised = "DatabaseError" =>
          /\ violations' = violations
          /\ corpus' = corpus
          /\ vectorizer' = vectorizer
          /\ tfidf_matrix' = tfidf_matrix]_vars

Searches == {"search_violations", "search_health_info"}

\* The text load_data makes of a row of the given data set.
TextAs(data_type, r) ==
    IF data_type = "health_advice" THEN AdviceText(r)
    ELSE IF data_type = "nutrition" THEN NutritionText(r)
    ELSE ExerciseText(r)

\* C6: in HealthCareChatbot every corpus position resolves to the record whose
\* text produced the document at that position: advice rows first, then
\* nutrition rows, then exercise rows; emergency conditions take no position;
\* and a result of search_health_info carries the record of its index row.
C6_ResolveAligned ==
    /\ Len(corpus) = Len(health_advice) + Len(nutrition_data) + Len(exercise_data)
    /\ \A idx \in DOMAIN corpus :
          /\ LocalIndex(Loaded, idx) \in DOMAIN DataSetOf(Loaded, idx)
          /\ corpus[idx] = TextAs(DataTypeOf(Loaded, idx), ResolveRecord(Loaded, idx))
          /\ idx <= Len(health_advice)
                => ResolveRecord(Loaded, idx) = health_advice[idx]
          /\ (idx > Len(health_advice)
                /\ idx <= Len(health_advice) + Len(nutrition_data))
                => ResolveRecord(Loaded, idx) = nutrition_data[idx - Len(health_advice)]
          /\ idx > Len(health_advice) + Len(nutrition_data)
                => ResolveRecord(Loaded, idx) \in
                       { exercise_data[i] : i \in DOMAIN exercise_data }
    /\ ret.op = "search_health_info" =>
          /\ ret.raised = ""
          /\ \A j \in DOMAIN ret.value :
                tfidf_matrix[ret.value[j].idx]
                    = TextAs(ret.value[j].data_type, ret.value[j].row)

\* C6 witness: after an add, with all three data sets filled, a search
\* returned an exercise record.
C6_Witness ==
    /\ ret.op = "search_health_info"
    /\ Len(health_advice) = 2 /\ Len(nutrition_data) >= 1
    /\ hdb.nutrition_data[Len(hdb.nutrition_data)].keywords = NULL
    /\ \E j \in DOMAIN ret.value : ret.value[j].data_type = "exercise"

\* C7: every result of search_violations and of search_health_info has a raw
\* similarity strictly above 0.05.
C7_AboveThreshold ==
    ret.op \in Searches =>
        \A j \in DOMAIN ret.value : ret.similarities[ret.value[j].idx] > 5

\* C7 witness: of two rows, the one whose similarity is exactly 0.05 and that
\* would earn the "tat ca" bonus is left out, the other is returned.
C7_Witness ==
    /\ ret.op = "search_violations"
    /\ Len(ret.similarities) = 3
    /\ ret.similarities[3] = 5 /\ violations[3].vehicle_type = s_tat_ca
    /\ Len(ret.value) = 2

\* The index rows of a sequence of results.
IdxOf(results) == { results[j].idx : j \in DOMAIN results }

\* C8: in both searches the results are the (at most) 3 candidates of highest
\* confidence of a pool of 5: a row above the threshold that at most 4 other
\* rows equal or beat in similarity is in the pool, a row that 5 rows beat is
\* never returned, and no candidate left out has a higher confidence than a
\* returned one.
C8_PoolOfFive ==
    (ret.op \in Searches /\ ret.raised = "" /\ ret.similarities # <<>>) =>
        /\ \A i \in DOMAIN ret.similarities :
              (ret.similarities[i] > 5
               /\ Cardinality({ j \in DOMAIN ret.similarities \ {i} :
                                  ret.similarities[j] >= ret.similarities[i] }) < 5)
                  => i \in IdxOf(ret.candidates)
        /\ \A i \in IdxOf(ret.value) :
              Cardinality({ j \in DOMAIN ret.similarities :
                              ret.similarities[j] > ret.similarities[i] }) < 5
        /\ Len(ret.value) = IF Len(ret.candidates) < 3 THEN Len(ret.candidates) ELSE 3
        /\ \A a \in DOMAIN ret.candidates :
              ret.candidates[a].idx \notin IdxOf(ret.value) =>
                  \A b \in DOMAIN ret.value :
                      ret.value[b].confidence >= ret.candidates[a].confidence

\* C9 as claimed: of two rows of equal similarity, search_violations selects
\* the one of lower corpus index first and orders it before the other.
C9_TiesKeepCorpusOrder ==
    (ret.op = "search_violations" /\ ret.raised = "") =>
        /\ \A a, b \in DOMAIN ret.candidates :
              (a < b /\ ret.similarities[ret.candidates[a].idx]
                           = ret.similarities[ret.candidates[b].idx])
                  => ret.candidates[a].idx < ret.candidates[b].idx
        /\ \A i, j \in DOMAIN ret.similarities :
              (i < j /\ ret.similarities[i] = ret.similarities[j]
                     /\ j \in IdxOf(ret.candidates))
                  => i \in IdxOf(ret.candidates)

\* C9 as amended: selection and order of the candidates of search_violations
\* go by raw similarity alone: the candidates stand in non-increasing
\* similarity, and a row above the threshold that beats a candidate is a
\* candidate; rows of equal similarity stand in no fixed order.
C9_OrderBySimilarityOnly ==
    (ret.op = "search_violations" /\ ret.raised = "") =>
        /\ \A a, b \in DOMAIN ret.candidates :
              a < b => ret.similarities[ret.candidates[a].idx]
                         >= ret.similarities[ret.candidates[b].idx]
        /\ \A i \in DOMAIN ret.similarities, c \in IdxOf(ret.candidates) :
              ret.similarities[i] > ret.similarities[c]
                  => i \in IdxOf(ret.candidates)

\* C9 witness: two candidates of equal similarity, the higher corpus index
\* first, and a third row of that similarity left out of the pool though its
\* index is lower.
C9_Witness ==
    /\ ret.op = "search_violations" /\ ret.raised = ""
    /\ \E a, b \in DOMAIN ret.candidates :
          /\ a < b
          /\ ret.candidates[a].idx > ret.candidates[b].idx
          /\ ret.similarities[ret.candidates[a].idx]
                = ret.similarities[ret.candidates[b].idx]
    /\ \E i \in DOMAIN ret.similarities, c \in IdxOf(ret.candidates) :
          /\ i < c /\ i \notin IdxOf(ret.candidates)
          /\ ret.similarities[i] = ret.similarities[c]

\* C10: the confidence of every candidate of search_violations is its raw
\* similarity + c + t: c is 0.2 if an extracted vehicle type is contained in
\* the row's, else 0.1 if the row's is "tat ca", else 0; t is 0.3 if some
\* extracted violation type is contained in the row's, else 0.
C10_Confidence ==
    ret.op = "search_violations" =>
        \A a \in DOMAIN ret.candidates :
            LET v == ret.candidates[a].row
                e == ret.entities
                c == IF e.vehicle_type # NULL /\ Contains(e.vehicle_type, v.vehicle_type)
                     THEN 20
                     ELSE IF v.vehicle_type = s_tat_ca THEN 10 ELSE 0
                t == IF \E k \in DOMAIN e.violation_types :
                            Contains(e.violation_types[k], v.violation_type)
                     THEN 30 ELSE 0
            IN ret.candidates[a].confidence
                  = ret.similarities[ret.candidates[a].idx] + c + t

\* C10 witness: one candidate matched on vehicle type and on two violation
\* types at once, another earned the "tat ca" bonus alone.
C10_Witness ==
    /\ ret.op = "search_violations"
    /\ \E a \in DOMAIN ret.candidates :
          /\ Contains(s_toc_do, ret.candidates[a].row.violation_type)
          /\ Contains(s_den_do, ret.candidates[a].row.violation_type)
          /\ Len(ret.entities.violation_types) = 2
          /\ ret.candidates[a].confidence
                = ret.similarities[ret.candidates[a].idx] + 50
    /\ \E a \in DOMAIN ret.candidates :
          /\ ret.candidates[a].row.vehicle_type = s_tat_ca
          /\ ret.candidates[a].confidence
                = ret.similarities[ret.candidates[a].idx] + 40

\* C11: in search_health_info the symptom bonus is granted at most once per
\* record: a candidate whose symptoms contain two or more of the extracted
\* symptoms has confidence raw similarity + 0.3.
C11_SymptomBonusOnce ==
    ret.op = "search_health_info" =>
        \A a \in DOMAIN ret.candidates :
            LET r == ret.candidates[a].row
                hit == /\ "symptoms" \in DOMAIN r
                       /\ r.symptoms # NULL
                       /\ \E k \in DOMAIN ret.entities.symptoms :
                             Contains(ret.entities.symptoms[k], r.symptoms)
            IN ret.candidates[a].confidence
                  = ret.similarities[ret.candidates[a].idx] + (IF hit THEN 30 ELSE 0)

\* C12: every result of search_violations and of search_health_info has a
\* confidence that is at least the raw similarity of its index row.
C12_ConfidenceAtLeastSimilarity ==
    ret.op \in Searches =>
        \A j \in DOMAIN ret.value :
            ret.value[j].confidence >= ret.similarities[ret.value[j].idx]

\* C12 witness: a search returned one result that earned a bonus and one whose
\* confidence is its raw similarity.
C12_Witness ==
    /\ ret.op = "search_violations"
    /\ \E j \in DOMAIN ret.value :
          ret.value[j].confidence > ret.similarities[ret.value[j].idx]
    /\ \E j \in DOMAIN ret.value :
          ret.value[j].confidence = ret.similarities[ret.value[j].idx]

\* The place of index row i in a sequence of results.
PlaceOf(results, i) == CHOOSE j \in DOMAIN results : results[j].idx = i

\* C13: the returned list is in non-increasing order of confidence, results of
\* equal confidence keep the order they had among the candidates, and the
\* cut to 3 comes after the sort: no candidate left out would stand before a
\* returned one.
C13_SortedStableThenCut ==
    (ret.op \in Searches /\ ret.raised = "") =>
        /\ \A a, b \in DOMAIN ret.value :
              a < b => ret.value[a].confidence >= ret.value[b].confidence
        /\ IdxOf(ret.value) \subseteq IdxOf(ret.candidates)
        /\ \A a, b \in DOMAIN ret.value :
              (a < b /\ ret.value[a].confidence = ret.value[b].confidence)
                  => PlaceOf(ret.candidates, ret.value[a].idx)
                        < PlaceOf(ret.candidates, ret.value[b].idx)
        /\ Len(ret.value) = IF Len(ret.candidates) < 3 THEN Len(ret.candidates) ELSE 3
        /\ \A c \in DOMAIN ret.candidates :
              ret.candidates[c].idx \notin IdxOf(ret.value) =>
                  \A b \in DOMAIN ret.value :
                      \/ ret.value[b].confidence > ret.candidates[c].confidence
                      \/ /\ ret.value[b].confidence = ret.candidates[c].confidence
                         /\ PlaceOf(ret.candidates, ret.value[b].idx) < c

\* C13 witness: more than 3 candidates, the first of them not returned first,
\* and two returned results of equal confidence.
C13_Witness ==
    /\ ret.op \in Searches /\ ret.raised = ""
    /\ Len(ret.candidates) > 3
    /\ ret.value[1].idx # ret.candidates[1].idx
    /\ \E a, b \in DOMAIN ret.value :
          a < b /\ ret.value[a].confidence = ret.value[b].confidence

\* C17: extract_entities assigns at most one vehicle category and the first
\* group wins: "xe may" whenever the normalized text contains "xe may", even
\* beside an "o to" word; "o to" only when no "xe may" word is present and an
\* "o to" word is; None otherwise.
C17_FirstVehicleGroupWins ==
    ret.op = "extract_entities" =>
        LET text == PreprocessText(ret.query)
        IN ret.value.vehicle_type =
              IF Contains(s_xe_may, text) THEN s_xe_may
              ELSE IF ~AnyIn(VehicleWords.xe_may, text) /\ AnyIn(VehicleWords.o_to, text)
                   THEN s_o_to
              ELSE NULL

\* C17 witness: a query that names a motorbike (as "Moto") after a car.
C17_Witness ==
    /\ ret.op = "extract_entities"
    /\ Contains(s_o_to, PreprocessText(ret.query))
    /\ ~Contains(s_xe_may, ret.query)
    /\ ret.value.vehicle_type = s_xe_may

\* The place of a tag among the groups of extract_entities.
GroupOf(tag) == CHOOSE i \in DOMAIN ViolationGroups : ViolationGroups[i].tag = tag

\* C18: violation_types is exactly the subsequence of the five tags whose
\* group has a word occurring in the normalized text: each group on its own,
\* in the order of the groups, several tags for a query of several kinds.
C18_ViolationTypesAreMatchingGroups ==
    ret.op = "extract_entities" =>
        LET text == PreprocessText(ret.query)
            types == ret.value.violation_types
        IN /\ \A k \in DOMAIN types :
                 \E i \in DOMAIN ViolationGroups : ViolationGroups[i].tag = types[k]
           /\ \A i \in DOMAIN ViolationGroups :
                 AnyIn(ViolationGroups[i].words, text)
                    <=> \E k \in DOMAIN types : types[k] = ViolationGroups[i].tag
           /\ \A a, b \in DOMAIN types : a < b => GroupOf(types[a]) < GroupOf(types[b])

\* C18 witness: a query of three kinds of violation got three tags.
C18_Witness ==
    /\ ret.op = "extract_entities"
    /\ Len(ret.value.violation_types) = 3
    /\ ret.value.violation_types[1] = ViolationGroups[2].tag

\* An occurrence of "<integer> km/h" in s: digits from place i to place j,
\* then spaces, then the unit.
SpeedOccurs(s, i, j) ==
    /\ i <= j /\ j <= Len(s)
    /\ \A m \in i..j : IsDigit(s[m])
    /\ \E k \in j..Len(s) :
          /\ \A m \in (j + 1)..k : IsSpace(s[m])
          /\ StartsAt(s, k + 1, s_km_h)

\* C19: speed is the integer of the first "<integer> km/h" of the normalized
\* text, and None when the text has none.
C19_SpeedIsFirstOccurrence ==
    ret.op = "extract_entities" =>
        LET text == PreprocessText(ret.query)
            occ == { p \in (DOMAIN text) \X (DOMAIN text) : SpeedOccurs(text, p[1], p[2]) }
        IN IF occ = {} THEN ret.value.speed = NoSpeed
           ELSE \E p \in occ :
                   /\ \A o \in occ : p[1] <= o[1]
                   /\ ret.value.speed = IntOf(SubSeq(text, p[1], p[2]))

\* C19 witness: two speeds in one query, the first of them extracted.
C19_Witness ==
    /\ ret.op = "extract_entities"
    /\ ret.value.speed = 5
    /\ Contains(<<"8", "0", "k", "m", "/", "h">>, ret.query)

\* C14: a query that is empty or only whitespace gets the empty-query answer
\* of its chatbot with confidence 0.0 and no results, and neither the
\* emergency lookup, nor entity extraction, nor the vectorizer, nor the
\* similarity search is invoked for it.
C14_BlankQueryShortCircuits ==
    (/\ ret.op \in {"generate_response", "generate_health_response"}
     /\ \A i \in DOMAIN ret.query : ret.query[i] \in {" ", "\t", "\n"})
    => /\ ret.calls = <<>>
       /\ ret.results = <<>>
       /\ ret.value.confidence = 0
       /\ DOMAIN ret.value = {"answer", "confidence"}
       /\ ret.value.answer =
             IF ret.op = "generate_response"
             THEN "Vui lo2ng nha65p ca6u ho3i cu3a ba5n."
             ELSE "Vui lo2ng nha65p ca6u ho3i su71c kho3e cu3a ba5n."

\* Two blanks were put to a chatbot whose index holds documents.
C14_Witness ==
    /\ ret.op \in {"generate_response", "generate_health_response"}
    /\ ret.query = <<" ", " ">>
    /\ corpus # <<>>
    /\ vectorizer # Unset
    /\ ret.calls = <<>>

\* C15: when check_emergency returns a condition for the query of
\* generate_health_response, search_health_info is not invoked and the
\* response has confidence 1.0, urgency "emergency" and the name of that
\* condition as emergency_condition.
C15_EmergencyBypassesSearch ==
    LET e == CheckEmergency(ret.query, emergency_conditions)
    IN (/\ ret.op = "generate_health_response"
        /\ e.raised = ""
        /\ e.value # NoCondition)
       => /\ \A i \in DOMAIN ret.calls : ret.calls[i] # "search_health_info"
          /\ ret.results = <<>>
          /\ ret.value.confidence = 100
          /\ ret.value.urgency = "emergency"
          /\ ret.value.emergency_condition = e.value.condition_name

\* The second stored condition matched a query the index has a document for.
C15_Witness ==
    /\ ret.op = "generate_health_response"
    /\ "emergency_condition" \in DOMAIN ret.value
    /\ Len(emergency_conditions) = 2
    /\ ret.value.emergency_condition = emergency_conditions[2].condition_name
    /\ ret.calls = <<"check_emergency">>
    /\ corpus # <<>>

\* C16: check_emergency returns None when the normalized query holds no
\* emergency keyword; when it holds one, it returns the first stored condition
\* one of whose whitespace-separated keywords occurs in the normalized query,
\* and None when no condition has such a keyword.
C16_FirstConditionWithKeyword ==
    ret.op = "check_emergency"
    => LET text == HealthPreprocessText(ret.query)
           hits == { i \in DOMAIN emergency_conditions :
                       /\ emergency_conditions[i].keywords # NULL
                       /\ LET words == Split(emergency_conditions[i].keywords)
                          IN \E k \in DOMAIN words : Contains(words[k], text) }
       IN /\ ret.raised = ""
          /\ ret.value =
                IF (\A i \in DOMAIN emergency_keywords :
                       ~Contains(emergency_keywords[i], text)) \/ hits = {}
                THEN NoCondition
                ELSE emergency_conditions[CHOOSE i \in hits : \A j \in hits : i <= j]

\* C20: search_violations, search_health_info, generate_response and
\* generate_health_response leave the tables, the corpus, the vocabulary of the
\* vectorizer and the tfidf_matrix as they were, whatever the query; the
\* confidence a result carries is not written to the stored row.
C20_SearchLeavesIndexAlone ==
    [][ret'.op \in {"search_violations", "search_health_info",
                    "generate_response", "generate_health_response"}
       => UNCHANGED <<legal, health, corpus, vectorizer, tfidf_matrix>>]_vars

\* A response was drawn from results that carry a confidence, for a query the
\* vectorizer transformed.
C20_Witness ==
    /\ ret.op \in {"generate_response", "generate_health_response"}
    /\ ret.results # <<>>
    /\ "confidence" \in DOMAIN ret.results[1]
    /\ \E i \in DOMAIN ret.calls : ret.calls[i] = "transform"
    /\ vectorizer = corpus

\* C21: generate_response and generate_health_response raise nothing: whatever
\* fault the search, the entity extraction or the emergency lookup met (an
\* index that was never built, a query that is no text), the call returns the
\* generic failure answer with confidence 0.0.
C21_FaultsGetTheFailureAnswer ==
    ret.op \in {"generate_response", "generate_health_response"}
    => /\ ret.raised = ""
       /\ ret.fault # ""
          => /\ ret.value.confidence = 0
             /\ ret.value.answer =
                   IF ret.op = "generate_response"
                   THEN "Xin lo64i, d9a4 co1 lo64i xa3y ra khi xu73 ly1 ca6u ho3i cu3a ba5n."
                   ELSE "Xin lo64i, d9a4 co1 lo64i xa3y ra khi xu73 ly1 ca6u ho3i su71c kho3e cu3a ba5n."

\* The search of a text met an index that was never built.
C21_Witness ==
    /\ ret.op = "generate_response"
    /\ ret.fault = "NotFittedError"
    /\ ret.query # NULL
    /\ corpus # <<>>

\* The phrase of the failure answer, and the prompt for a question.
FallbackPhrase == <<"lo64i", "xa3y", "ra">>
PromptPhrase == <<"Vui", "lo2ng", "nha65p", "ca6u", "ho3i", "cu3a", "ba5n">>

\* C22: when generate_response raises, POST /webhook still answers 200 with a
\* fulfillmentText that holds the fallback phrase "lo64i xa3y ra"; when the
\* method behind POST /chat or behind POST /violations raises, the answer is
\* 500 with an error field.
C22_RaisingGetsFallback ==
    [][ /\ ( /\ response'.route = "POST /webhook"
             /\ HasQueryText(response'.request)
             /\ ret'.raised # "" )
           => /\ response'.status = 200
              /\ "fulfillmentText" \in DOMAIN response'.body
              /\ Contains(FallbackPhrase, Text(response'.body.fulfillmentText))
        /\ ( /\ response'.route \in {"POST /chat", "POST /violations"}
             /\ response'.status # 400
             /\ ret'.raised # "" )
           => /\ response'.status = 500
              /\ "error" \in DOMAIN response'.body ]_vars

\* C23: a /webhook request with an empty queryText is answered 200 with a
\* fulfillmentText that holds the prompt "Vui lo2ng nha65p ca6u ho3i cu3a ba5n",
\* the answer generate_response gives to an empty query.
C23_EmptyQueryTextGetsPrompt ==
    ( /\ response.route = "POST /webhook"
      /\ response.request = <<>> )
    => /\ response.status = 200
       /\ "fulfillmentText" \in DOMAIN response.body
       /\ Contains(PromptPhrase, Text(response.body.fulfillmentText))

\* The columns a request to update_violation may name.
NamedWhitelist ==
    {"violation_type", "description", "vehicle_type", "fine_amount",
     "additional_penalty", "legal_reference", "keywords", "document_id"}

\* The step is a call of update_violation or delete_violation by its route.
StoreCall ==
    /\ response'.route \in {"PUT /violations", "DELETE /violations"}
    /\ response'.status # 400

\* An id that is not stored: False, 404 with an error field, the stored
\* violations as they were.
UnknownIdRefused ==
    ret'.violation_id \notin Ids(db.violations)
    => /\ ret'.value = FALSE
       /\ response'.status = 404
       /\ "error" \in DOMAIN response'.body
       /\ db'.violations = db.violations

\* C24 as stated: update_violation and delete_violation return False for an id
\* that is not stored (404 with an error field, the stored violations
\* unchanged) and True for an id that is stored (200).
C24_KnownIdSucceeds ==
    [][ StoreCall
        => /\ UnknownIdRefused
           /\ ret'.violation_id \in Ids(db.violations)
              => /\ ret'.value = TRUE
                 /\ response'.status = 200 ]_vars

\* C24, amended: as stated, except that update_violation on a stored id
\* returns True (200) when the request names a whitelisted column and False
\* (404) when it names none.
C24_KnownIdSucceedsWithColumn ==
    [][ StoreCall
        => /\ UnknownIdRefused
           /\ ret'.violation_id \in Ids(db.violations)
              => /\ ret'.value =
                       ( \/ response'.route = "DELETE /violations"
                         \/ DOMAIN ret'.violation_data \cap NamedWhitelist # {} )
                 /\ response'.status = IF ret'.value THEN 200 ELSE 404 ]_vars

\* update_violation was refused on a stored id, for want of a column.
C24_Witness ==
    /\ ret.op = "update_violation"
    /\ response.route = "PUT /violations"
    /\ response.status = 404
    /\ ret.violation_id \in Ids(db.violations)
    /\ DOMAIN ret.violation_data \cap NamedWhitelist = {}

\* C29: update_violation sets the whitelisted columns the request names on
\* the row with the given id and changes no other column and no other row; a
\* request that names no whitelisted column returns False and changes nothing
\* in the store.
C29_UpdateChangesNamedColumnsOnly ==
    [][ ( /\ response'.route = "PUT /violations"
          /\ response'.status # 400 )
        => LET id == ret'.violation_id
               named == DOMAIN ret'.violation_data \cap NamedWhitelist
           IN /\ DOMAIN db'.violations = DOMAIN db.violations
              /\ db'.legal_documents = db.legal_documents
              /\ \A i \in DOMAIN db.violations :
                    \A c \in DOMAIN db.violations[i] :
                       db'.violations[i][c] =
                          IF db.violations[i].id = id /\ c \in named
                          THEN ret'.violation_data[c]
                          ELSE db.violations[i][c]
              /\ named = {} => (ret'.value = FALSE /\ db' = db) ]_vars

\* Violation 1 of two was updated: its description is the new one, its
\* violation_type, which the request did not name, is the old one.
C29_Witness ==
    /\ ret.op = "update_violation"
    /\ ret.value = TRUE
    /\ ret.violation_id = 1
    /\ Len(db.violations) = 2
    /\ db.violations[1].id = 1
    /\ db.violations[1].description = ret.violation_data.description
    /\ db.violations[1].description # DataSpeed.description
    /\ db.violations[1].violation_type = DataSpeed.violation_type

\* The violations that are not attached to document d, in stored order.
NotOf(rows, d) == SelectSeq(rows, LAMBDA r : r.document_id # d)

\* C30: after delete_legal_document(d) no stored violation has document_id d
\* and no legal document has id d; the violations of other documents and the
\* other documents are as they were; the call returns True exactly when a
\* document with id d existed.
C30_DocumentAndItsViolationsGo ==
    [][ response'.route = "DELETE /legal-documents"
        => LET d == ret'.doc_id
           IN /\ \A i \in DOMAIN db'.violations : db'.violations[i].document_id # d
              /\ d \notin db'.legal_documents
              /\ NotOf(db'.violations, d) = NotOf(db.violations, d)
              /\ db'.legal_documents \cup {d} = db.legal_documents \cup {d}
              /\ violations' = db'.violations
              /\ legal_documents' = db'.legal_documents
              /\ ret'.value = (d \in db.legal_documents) ]_vars

\* Document 1 was deleted with its violations; a violation of document 2 and
\* that document are still stored.
C30_Witness ==
    /\ ret.op = "delete_legal_document"
    /\ ret.doc_id = 1
    /\ ret.value = TRUE
    /\ db.legal_documents = {2}
    /\ Len(db.violations) = 1
    /\ db.violations[1].document_id = 2

\* The colloquial phrases and the canonical terms they are folded onto.
Folds ==
    << <<<<"x","e"," ","g","a81","n"," ","m","a1","y">>,
         <<"x","e"," ","m","a1","y">>>>,
       <<<<"o6"," ","t","o6"," ","c","o","n">>,
         <<"o6"," ","t","o6">>>>,
       <<<<"v","u7","o75","t"," ","d9","e2","n"," ","d9","o3">>,
         <<"d9","e2","n"," ","d9","o3">>>>,
       <<<<"u","o61","n","g"," ","r","u7","o75","u">>,
         <<"n","o62","n","g"," ","d9","o65"," ","c","o62","n">>>>,
       <<<<"b","a82","n","g"," ","l","a1","i">>,
         <<"g","i","a61","y"," ","p","h","e1","p"," ","l","a1","i"," ","x","e">>>>,
       <<<<"c","h","a5","y"," ","n","h","a","n","h">>,
         <<"t","o61","c"," ","d9","o65">>>> >>

\* A text without its blanks.
NoBlanks(text) == SelectSeq(text, LAMBDA c : ~IsSpace(c))

\* C26: preprocess_text folds every colloquial phrase of the lowercased text
\* onto its canonical term, "cha5y nhanh" onto "to61c d9o65" among them, so
\* that "Xe ga81n ma1y cha5y nhanh" gives a text that holds "xe ma1y to61c d9o65"
\* up to blanks.
C26_PhrasesAreFolded ==
    ( /\ ret.op = "preprocess_text"
      /\ ret.call = 1 )
    => /\ \A k \in DOMAIN Folds :
             Contains(Folds[k][1], Lower(ret.text))
             => /\ Contains(Folds[k][2], ret.value)
                /\ ~Contains(Folds[k][1], ret.value)
       /\ ret.text = <<"X","e"," ","g","a81","n"," ","m","a1","y"," ","c","h","a5","y"," ","n","h","a","n","h"," ">>
          => Contains(NoBlanks(<<"x","e"," ","m","a1","y"," ","t","o61","c"," ","d9","o65">>), NoBlanks(ret.value))

\* C27: preprocess_text of either chatbot, called on what it returned, returns
\* it unchanged.
C27_NormalizationIsIdempotent ==
    ( /\ ret.op \in {"preprocess_text", "health.preprocess_text"}
      /\ ret.call = 2 )
    => ret.value = ret.text

\* C25: cached_search called twice in a row with the same query calls
\* search_violations for the first call at most and gives the second call
\* what the first one got.
C25_SecondCallIsServedFromCache ==
    [][ ( /\ ret.op = "cached_search"
          /\ ret'.op = "cached_search"
          /\ ret'.query = ret.query
          /\ ret'.again )
        => /\ ~ret'.invoked
           /\ ret'.raised = ret.raised
           /\ ret'.value = ret.value ]_vars

\* C28: what cached_search(q) returns is what search_violations(q) returns on
\* the records and the index of the moment.
C28_CacheFollowsTheRecords ==
    ( /\ ret.op = "cached_search"
      /\ ret.raised = "" )
    => \E s \in ViolationsFor(ret.query, SimsOf(ret.query)) :
          /\ s.raised = ""
          /\ s.value = ret.value
====
